---- MODULE Spec2Model ----
(***************************************************************************)
(* Model of ext/socket/socket.c: the Socket class of the socket extension. *)
(*                                                                         *)
(* The program is single threaded and every method is one synchronous      *)
(* call, so each method is one action.  `result' is what the call that     *)
(* made the last step handed to its caller (a value or an exception) and   *)
(* `log' is the sequence of system calls and other externally visible      *)
(* steps that call made, in program order.  The operating system is the    *)
(* environment: a table of descriptors with the socket state the kernel    *)
(* keeps for each of them.  The model runs at the default $SAFE level, so  *)
(* rb_secure never raises.                                                 *)
(***************************************************************************)
EXTENDS Integers, Sequences, FiniteSets, TLC

(* ---------------------------------------------------------------------- *)
(* Bounds                                                                  *)
(* ---------------------------------------------------------------------- *)
NumFds == 3
MaxHandles == 2
MaxPending == 1

(* Descriptors 0, 1 and 2 are the standard streams.                       *)
Fds == 3..(NumFds + 2)
NoFd == 0 - 1

(* ---------------------------------------------------------------------- *)
(* State                                                                   *)
(* ---------------------------------------------------------------------- *)
VARIABLES handles, os, result, log, arg, out

vars == <<handles, os, result, log, arg, out>>

(* handles, os, result and log are the state of the Socket instance        *)
(* methods.  The class methods that only compute (the address codec, the   *)
(* service lookups) are modelled as calls on an argument: arg is what the  *)
(* caller passes and out what the last such call handed back.              *)
sockvars == <<handles, os, result, log>>

NotCalled == [fn |-> "none", outcome |-> "none", err |-> "", val |-> <<>>,
              reads |-> {}, src |-> "none", given |-> <<>>]

(* A descriptor slot of the kernel: st is the state of the socket behind   *)
(* it, nonblock its O_NONBLOCK file status flag, pending the number of     *)
(* connections queued on it while it listens.                              *)
FreeSlot == [st |-> "free", nonblock |-> FALSE, pending |-> 0]

NewSlot(st) == [st |-> st, nonblock |-> FALSE, pending |-> 0]

Free(o) == {f \in Fds : o[f].st = "free"}

LowestFree(o) == CHOOSE f \in Free(o) : \A g \in Free(o) : f <= g

HandleIds == 1..Len(handles)

IsOpen(h) == handles[h].fd # NoFd

OpenHandles == {h \in HandleIds : IsOpen(h)}

(* ---------------------------------------------------------------------- *)
(* What a call hands back                                                  *)
(* ---------------------------------------------------------------------- *)
NoCall == [op |-> "none", h |-> 0, outcome |-> "none", err |-> "", errno |-> "",
           kind |-> "none", val |-> <<>>]

Return(op, h, kind, val) ==
    [op |-> op, h |-> h, outcome |-> "return", err |-> "", errno |-> "",
     kind |-> kind, val |-> val]

(* rb_sys_fail(mesg): raises the Errno exception of the current errno,     *)
(* with mesg naming the system call.                                       *)
rb_sys_fail(op, h, mesg, errno) ==
    [op |-> op, h |-> h, outcome |-> "raise", err |-> mesg, errno |-> errno,
     kind |-> "none", val |-> <<>>]

(* Exceptions that carry no errno: IOError, TypeError.                     *)
rb_raise(op, h, class) ==
    [op |-> op, h |-> h, outcome |-> "raise", err |-> class, errno |-> "",
     kind |-> "none", val |-> <<>>]

Blocked(op, h) ==
    [op |-> op, h |-> h, outcome |-> "blocked", err |-> "", errno |-> "",
     kind |-> "none", val |-> <<>>]

Ev(ev, fd, res) == [ev |-> ev, fd |-> fd, res |-> res]

Idle == result.outcome # "blocked"

(* ---------------------------------------------------------------------- *)
(* The operating system                                                    *)
(* ---------------------------------------------------------------------- *)
(* socket(2): the lowest free descriptor, or an error.                     *)
OsSocket(o) ==
    (IF Free(o) # {} THEN {"ok"} ELSE {}) \cup {"EMFILE", "ENFILE", "EAFNOSUPPORT"}

(* socketpair(2): the two lowest free descriptors, or an error.            *)
OsSocketpair(o) ==
    (IF Cardinality(Free(o)) >= 2 THEN {"ok"} ELSE {})
        \cup {"EMFILE", "ENFILE", "EOPNOTSUPP"}

(* bind(2) on a socket in state st.                                        *)
OsBind(st) ==
    IF st = "created" THEN {"ok", "EADDRINUSE"} ELSE {"EINVAL"}

(* listen(2) on a socket in state st.                                      *)
OsListen(st) ==
    CASE st \in {"bound", "listening"} -> {"ok", "EADDRINUSE"}
      [] st = "created" -> {"ok", "EDESTADDRREQ"}
      [] OTHER -> {"EINVAL"}

(* connect(2) on a socket in state st whose descriptor has O_NONBLOCK nb.  *)
OsConnect(st, nb) ==
    CASE st \in {"created", "bound"} ->
             {"ok", "ECONNREFUSED"} \cup (IF nb THEN {"EINPROGRESS"} ELSE {})
      [] st = "connecting" -> {"EALREADY", "EISCONN"}
      [] st = "connected" -> {"EISCONN"}
      [] OTHER -> {"EOPNOTSUPP"}

OsConnectState(st, r) ==
    CASE r = "ok" -> "connected"
      [] r = "EINPROGRESS" -> "connecting"
      [] r = "EISCONN" -> "connected"
      [] OTHER -> st

(* accept(2) on slot s: "block" stands for a call that does not return     *)
(* until a connection arrives.                                             *)
OsAccept(o, s) ==
    CASE s.st # "listening" -> {"EINVAL"}
      [] s.pending > 0 ->
             (IF Free(o) # {} THEN {"ok"} ELSE {"EMFILE"}) \cup {"ECONNABORTED"}
      [] s.nonblock -> {"EWOULDBLOCK"}
      [] OTHER -> {"block"}

(* recvfrom(2) on a socket whose descriptor has O_NONBLOCK nb.             *)
OsRecvfrom(st, nb) ==
    {"ok", "ECONNRESET"} \cup (IF nb THEN {"EWOULDBLOCK"} ELSE {})

(* ---------------------------------------------------------------------- *)
(* Initial state                                                           *)
(* ---------------------------------------------------------------------- *)
Init ==
    /\ handles = <<>>
    /\ os = [f \in Fds |-> FreeSlot]
    /\ result = NoCall
    /\ log = <<>>
    /\ arg = <<>>
    /\ out = NotCalled

(* ---------------------------------------------------------------------- *)
(* Helpers shared by the methods                                           *)
(* ---------------------------------------------------------------------- *)
(* init_sock(sock, fd): the new handle owns fd.                            *)
init_sock(hs, fd) == Append(hs, [fd |-> fd])

(* rb_io_set_nonblock(fptr): sets O_NONBLOCK on the descriptor.            *)
rb_io_set_nonblock(o, fd) == [o EXCEPT ![fd].nonblock = TRUE]

(* IO#close on handle h: the descriptor goes back to the kernel and the    *)
(* handle keeps no descriptor.                                             *)
CloseHandle(hs, h) == [hs EXCEPT ![h].fd = NoFd]

CloseFd(o, fd) == [o EXCEPT ![fd] = FreeSlot]

(* ---------------------------------------------------------------------- *)
(* Socket.new                                                              *)
(* ---------------------------------------------------------------------- *)
(* ruby_socket(d, t, p): the socket(2) call.                                *)
ruby_socket(o, r) ==
    IF r = "ok" THEN [o EXCEPT ![LowestFree(o)] = NewSlot("created")] ELSE o

sock_initialize(argsOk, r) ==
    /\ Idle
    /\ UNCHANGED <<arg, out>>
    /\ Len(handles) < MaxHandles
    /\ IF ~argsOk
       THEN /\ result' = rb_raise("new", 0, "ArgumentError")
            /\ log' = <<>>
            /\ UNCHANGED <<handles, os>>
       ELSE /\ r \in OsSocket(os)
            /\ IF r # "ok"
               THEN /\ result' = rb_sys_fail("new", 0, "socket(2)", r)
                    /\ log' = <<Ev("socket", NoFd, r)>>
                    /\ UNCHANGED <<handles, os>>
               ELSE LET fd == LowestFree(os) IN
                    /\ os' = ruby_socket(os, r)
                    /\ handles' = init_sock(handles, fd)
                    /\ result' = Return("new", Len(handles) + 1, "handle",
                                        <<Len(handles) + 1>>)
                    /\ log' = <<Ev("socket", fd, "ok")>>

(* ---------------------------------------------------------------------- *)
(* IO#close                                                                *)
(* ---------------------------------------------------------------------- *)
io_call_close(h) ==
    /\ Idle
    /\ UNCHANGED <<arg, out>>
    /\ h \in HandleIds
    /\ IF ~IsOpen(h)
       THEN /\ result' = rb_raise("close", h, "IOError")
            /\ log' = <<>>
            /\ UNCHANGED <<handles, os>>
       ELSE /\ os' = CloseFd(os, handles[h].fd)
            /\ handles' = CloseHandle(handles, h)
            /\ result' = Return("close", h, "nil", <<>>)
            /\ log' = <<Ev("close", handles[h].fd, "ok")>>

(* ---------------------------------------------------------------------- *)
(* Socket.socketpair                                                       *)
(* ---------------------------------------------------------------------- *)
(* The methods below that run several steps thread a record through them:  *)
(* hs the handles, o the descriptor table, lg the log so far.              *)

(* io_close(io): calls io.close and rescues the error close raises (an     *)
(* IOError when the handle is closed already).                             *)
io_close(S, h) ==
    IF S.hs[h].fd = NoFd
    THEN [S EXCEPT !.lg = Append(@, Ev("io_close", h, "IOError"))]
    ELSE [hs |-> CloseHandle(S.hs, h),
          o |-> CloseFd(S.o, S.hs[h].fd),
          lg |-> Append(S.lg, Ev("io_close", h, "ok"))]

(* The caller's block, given the pair: it may close either end itself      *)
(* (closes is the set of positions in the pair it closes) and it returns   *)
(* or raises (bo).                                                         *)
RECURSIVE BlockCloses(_, _, _)
BlockCloses(S, pair, closes) ==
    IF closes = {} THEN S
    ELSE LET i == CHOOSE x \in closes : \A y \in closes : x <= y
             h == pair[i]
             T == [hs |-> CloseHandle(S.hs, h),
                   o |-> CloseFd(S.o, S.hs[h].fd),
                   lg |-> Append(S.lg, Ev("block_close", h, "ok"))]
         IN BlockCloses(T, pair, closes \ {i})

rb_yield(S, pair, closes, bo) ==
    LET T == BlockCloses(S, pair, closes)
    IN [T EXCEPT !.lg = Append(@, Ev("yield", 0, bo))]

(* Faulty variant: no rb_ensure, so the close is skipped when the block    *)
(* raises.                                                                 *)
pair_yield_no_ensure(S, pair, closes, bo) ==
    IF bo = "raise"
    THEN rb_yield(S, pair, closes, bo)
    ELSE io_close(rb_yield(S, pair, closes, bo), pair[2])

(* Faulty variant: the ensure clause closes the first end of the pair.    *)
pair_yield_closes_first(S, pair, closes, bo) ==
    io_close(rb_yield(S, pair, closes, bo), pair[1])

(* pair_yield(pair): rb_ensure(rb_yield, pair, io_close, pair[1]).         *)
pair_yield(S, pair, closes, bo) ==
    io_close(rb_yield(S, pair, closes, bo), pair[2])

(* The outcomes of the second socketpair(2), when there is one.             *)
SocketpairRetry(o, r1) ==
    IF r1 \in {"EMFILE", "ENFILE"} THEN OsSocketpair(o) ELSE {"none"}

(* The socketpair(2) call and its one retry after rb_gc: lg is what was    *)
(* called, ret the return of the last call.                                *)
(* Faulty variant: retries after any failure, not only EMFILE and ENFILE.   *)
socketpair_attempts_any_errno(r1, r2) ==
    IF r1 # "ok"
    THEN [lg |-> <<Ev("socketpair", NoFd, r1), Ev("gc", NoFd, "ok"),
                  Ev("socketpair", NoFd, r2)>>,
          ret |-> r2]
    ELSE [lg |-> <<Ev("socketpair", NoFd, r1)>>, ret |-> r1]

socketpair_attempts(r1, r2) ==
    IF r1 \in {"EMFILE", "ENFILE"}
    THEN [lg |-> <<Ev("socketpair", NoFd, r1), Ev("gc", NoFd, "ok"),
                  Ev("socketpair", NoFd, r2)>>,
          ret |-> r2]
    ELSE [lg |-> <<Ev("socketpair", NoFd, r1)>>, ret |-> r1]

(* Faulty variant: both handles wrap sp[0].                                 *)
socketpair_handles_same_fd(hs, sp0, sp1) == init_sock(init_sock(hs, sp0), sp0)

(* s1 = init_sock(.., sp[0]); s2 = init_sock(.., sp[1]).                   *)
socketpair_handles(hs, sp0, sp1) == init_sock(init_sock(hs, sp0), sp1)

sock_s_socketpair(argsOk, r1, r2, blockGiven, closes, bo) ==
    /\ Idle
    /\ UNCHANGED <<arg, out>>
    /\ Len(handles) + 2 <= MaxHandles
    /\ IF ~argsOk
       THEN /\ result' = rb_raise("socketpair", 0, "ArgumentError")
            /\ log' = <<>>
            /\ UNCHANGED <<handles, os>>
       ELSE /\ r1 \in OsSocketpair(os)
            /\ r2 \in SocketpairRetry(os, r1)
            /\ LET att == socketpair_attempts(r1, r2)
                   lg2 == att.lg
                   ret == att.ret
                   sp0 == LowestFree(os)
                   o0 == [os EXCEPT ![sp0] = NewSlot("connected")]
                   sp1 == LowestFree(o0)
                   o1 == [o0 EXCEPT ![sp1] = NewSlot("connected")]
                   s1 == Len(handles) + 1
                   s2 == Len(handles) + 2
                   hs1 == socketpair_handles(handles, sp0, sp1)
                   r == <<s1, s2>>
                   S == [hs |-> hs1, o |-> o1, lg |-> lg2]
                   T == io_close(pair_yield(S, r, closes, bo), s1)
               IN IF ret # "ok"
                  THEN /\ result' = rb_sys_fail("socketpair", 0, "socketpair(2)", ret)
                       /\ log' = lg2
                       /\ UNCHANGED <<handles, os>>
                  ELSE IF blockGiven
                  THEN /\ handles' = T.hs
                       /\ os' = T.o
                       /\ log' = T.lg
                       /\ result' = IF bo = "return"
                                    THEN Return("socketpair", 0, "block", r)
                                    ELSE [rb_raise("socketpair", 0, "BlockError")
                                             EXCEPT !.val = r]
                  ELSE /\ closes = {} /\ bo = "return"
                       /\ handles' = hs1
                       /\ os' = o1
                       /\ log' = lg2
                       /\ result' = Return("socketpair", 0, "pair", r)

(* ---------------------------------------------------------------------- *)
(* Socket#connect, Socket#connect_nonblock                                 *)
(* ---------------------------------------------------------------------- *)
(* ruby_connect(fd, addr, len, 0): the connect(2) call on fd.              *)
ruby_connect(o, fd, r) == [o EXCEPT ![fd].st = OsConnectState(@, r)]

(* Faulty variant: the blocking connect puts the descriptor back into      *)
(* blocking mode when it is done.                                          *)
sock_connect_clears_nonblock(h, addrOk, r) ==
    /\ Idle
    /\ UNCHANGED <<arg, out>>
    /\ h \in HandleIds
    /\ IF ~addrOk
       THEN /\ result' = rb_raise("connect", h, "TypeError")
            /\ log' = <<>>
            /\ UNCHANGED <<handles, os>>
       ELSE IF ~IsOpen(h)
       THEN /\ result' = rb_raise("connect", h, "IOError")
            /\ log' = <<>>
            /\ UNCHANGED <<handles, os>>
       ELSE LET fd == handles[h].fd IN
            /\ r \in OsConnect(os[fd].st, os[fd].nonblock)
            /\ os' = [ruby_connect(os, fd, r) EXCEPT ![fd].nonblock = FALSE]
            /\ log' = <<Ev("connect", fd, r)>>
            /\ result' = IF r # "ok"
                         THEN rb_sys_fail("connect", h, "connect(2)", r)
                         ELSE Return("connect", h, "int", <<0>>)
            /\ UNCHANGED handles

sock_connect(h, addrOk, r) ==
    /\ Idle
    /\ UNCHANGED <<arg, out>>
    /\ h \in HandleIds
    /\ IF ~addrOk
       THEN /\ result' = rb_raise("connect", h, "TypeError")
            /\ log' = <<>>
            /\ UNCHANGED <<handles, os>>
       ELSE IF ~IsOpen(h)
       THEN /\ result' = rb_raise("connect", h, "IOError")
            /\ log' = <<>>
            /\ UNCHANGED <<handles, os>>
       ELSE LET fd == handles[h].fd IN
            /\ r \in OsConnect(os[fd].st, os[fd].nonblock)
            /\ os' = ruby_connect(os, fd, r)
            /\ log' = <<Ev("connect", fd, r)>>
            /\ result' = IF r # "ok"
                         THEN rb_sys_fail("connect", h, "connect(2)", r)
                         ELSE Return("connect", h, "int", <<0>>)
            /\ UNCHANGED handles

(* Faulty variant: EINPROGRESS is handed back as a value instead of being  *)
(* raised.                                                                 *)
sock_connect_nonblock_returns_einprogress(h, addrOk, r) ==
    /\ Idle
    /\ UNCHANGED <<arg, out>>
    /\ h \in HandleIds
    /\ IF ~addrOk
       THEN /\ result' = rb_raise("connect_nonblock", h, "TypeError")
            /\ log' = <<>>
            /\ UNCHANGED <<handles, os>>
       ELSE IF ~IsOpen(h)
       THEN /\ result' = rb_raise("connect_nonblock", h, "IOError")
            /\ log' = <<>>
            /\ UNCHANGED <<handles, os>>
       ELSE LET fd == handles[h].fd
                o1 == rb_io_set_nonblock(os, fd)
            IN
            /\ r \in OsConnect(o1[fd].st, o1[fd].nonblock)
            /\ os' = [o1 EXCEPT ![fd].st = OsConnectState(@, r)]
            /\ log' = <<Ev("set_nonblock", fd, "ok"), Ev("connect", fd, r)>>
            /\ result' = IF r \notin {"ok", "EINPROGRESS"}
                         THEN rb_sys_fail("connect_nonblock", h, "connect(2)", r)
                         ELSE Return("connect_nonblock", h, "int", <<0>>)
            /\ UNCHANGED handles

(* Faulty variant: connect(2) is issued before O_NONBLOCK is set.          *)
sock_connect_nonblock_sets_late(h, addrOk, r) ==
    /\ Idle
    /\ UNCHANGED <<arg, out>>
    /\ h \in HandleIds
    /\ IF ~addrOk
       THEN /\ result' = rb_raise("connect_nonblock", h, "TypeError")
            /\ log' = <<>>
            /\ UNCHANGED <<handles, os>>
       ELSE IF ~IsOpen(h)
       THEN /\ result' = rb_raise("connect_nonblock", h, "IOError")
            /\ log' = <<>>
            /\ UNCHANGED <<handles, os>>
       ELSE LET fd == handles[h].fd
                o1 == [os EXCEPT ![fd].st = OsConnectState(@, r)]
            IN
            /\ r \in OsConnect(os[fd].st, os[fd].nonblock)
            /\ os' = rb_io_set_nonblock(o1, fd)
            /\ log' = <<Ev("connect", fd, r), Ev("set_nonblock", fd, "ok")>>
            /\ result' = IF r # "ok"
                         THEN rb_sys_fail("connect_nonblock", h, "connect(2)", r)
                         ELSE Return("connect_nonblock", h, "int", <<0>>)
            /\ UNCHANGED handles

sock_connect_nonblock(h, addrOk, r) ==
    /\ Idle
    /\ UNCHANGED <<arg, out>>
    /\ h \in HandleIds
    /\ IF ~addrOk
       THEN /\ result' = rb_raise("connect_nonblock", h, "TypeError")
            /\ log' = <<>>
            /\ UNCHANGED <<handles, os>>
       ELSE IF ~IsOpen(h)
       THEN /\ result' = rb_raise("connect_nonblock", h, "IOError")
            /\ log' = <<>>
            /\ UNCHANGED <<handles, os>>
       ELSE LET fd == handles[h].fd
                o1 == rb_io_set_nonblock(os, fd)
            IN
            /\ r \in OsConnect(o1[fd].st, o1[fd].nonblock)
            /\ os' = [o1 EXCEPT ![fd].st = OsConnectState(@, r)]
            /\ log' = <<Ev("set_nonblock", fd, "ok"), Ev("connect", fd, r)>>
            /\ result' = IF r # "ok"
                         THEN rb_sys_fail("connect_nonblock", h, "connect(2)", r)
                         ELSE Return("connect_nonblock", h, "int", <<0>>)
            /\ UNCHANGED handles

(* ---------------------------------------------------------------------- *)
(* Socket#bind, Socket#listen                                              *)
(* ---------------------------------------------------------------------- *)
(* Faulty variant: no GetOpenFile, so bind(2) is issued on the descriptor   *)
(* of a closed handle.                                                     *)
sock_bind_no_open_check(h, addrOk, r) ==
    /\ Idle
    /\ UNCHANGED <<arg, out>>
    /\ h \in HandleIds
    /\ IF ~addrOk
       THEN /\ result' = rb_raise("bind", h, "TypeError")
            /\ log' = <<>>
            /\ UNCHANGED <<handles, os>>
       ELSE IF ~IsOpen(h)
       THEN /\ result' = rb_sys_fail("bind", h, "bind(2)", "EBADF")
            /\ log' = <<Ev("bind", NoFd, "EBADF")>>
            /\ UNCHANGED <<handles, os>>
       ELSE LET fd == handles[h].fd IN
            /\ r \in OsBind(os[fd].st)
            /\ os' = IF r = "ok" THEN [os EXCEPT ![fd].st = "bound"] ELSE os
            /\ log' = <<Ev("bind", fd, r)>>
            /\ result' = IF r # "ok"
                         THEN rb_sys_fail("bind", h, "bind(2)", r)
                         ELSE Return("bind", h, "int", <<0>>)
            /\ UNCHANGED handles

sock_bind(h, addrOk, r) ==
    /\ Idle
    /\ UNCHANGED <<arg, out>>
    /\ h \in HandleIds
    /\ IF ~addrOk
       THEN /\ result' = rb_raise("bind", h, "TypeError")
            /\ log' = <<>>
            /\ UNCHANGED <<handles, os>>
       ELSE IF ~IsOpen(h)
       THEN /\ result' = rb_raise("bind", h, "IOError")
            /\ log' = <<>>
            /\ UNCHANGED <<handles, os>>
       ELSE LET fd == handles[h].fd IN
            /\ r \in OsBind(os[fd].st)
            /\ os' = IF r = "ok" THEN [os EXCEPT ![fd].st = "bound"] ELSE os
            /\ log' = <<Ev("bind", fd, r)>>
            /\ result' = IF r # "ok"
                         THEN rb_sys_fail("bind", h, "bind(2)", r)
                         ELSE Return("bind", h, "int", <<0>>)
            /\ UNCHANGED handles

(* Faulty variant: the failure of listen(2) is reported as bind(2).         *)
sock_listen_wrong_name(h, logOk, r) ==
    /\ Idle
    /\ UNCHANGED <<arg, out>>
    /\ h \in HandleIds
    /\ IF ~logOk
       THEN /\ result' = rb_raise("listen", h, "TypeError")
            /\ log' = <<>>
            /\ UNCHANGED <<handles, os>>
       ELSE IF ~IsOpen(h)
       THEN /\ result' = rb_raise("listen", h, "IOError")
            /\ log' = <<>>
            /\ UNCHANGED <<handles, os>>
       ELSE LET fd == handles[h].fd IN
            /\ r \in OsListen(os[fd].st)
            /\ os' = IF r = "ok" THEN [os EXCEPT ![fd].st = "listening"] ELSE os
            /\ log' = <<Ev("listen", fd, r)>>
            /\ result' = IF r # "ok"
                         THEN rb_sys_fail("listen", h, "bind(2)", r)
                         ELSE Return("listen", h, "int", <<0>>)
            /\ UNCHANGED handles

(* Faulty variant: listen checks the lifecycle state itself and refuses a  *)
(* socket that is not bound without asking the kernel.                     *)
sock_listen_checks_state(h, logOk, r) ==
    /\ Idle
    /\ UNCHANGED <<arg, out>>
    /\ h \in HandleIds
    /\ IF ~logOk
       THEN /\ result' = rb_raise("listen", h, "TypeError")
            /\ log' = <<>>
            /\ UNCHANGED <<handles, os>>
       ELSE IF ~IsOpen(h)
       THEN /\ result' = rb_raise("listen", h, "IOError")
            /\ log' = <<>>
            /\ UNCHANGED <<handles, os>>
       ELSE LET fd == handles[h].fd IN
            IF os[fd].st \notin {"bound", "listening"}
            THEN /\ result' = rb_sys_fail("listen", h, "listen(2)", "EINVAL")
                 /\ log' = <<>>
                 /\ UNCHANGED <<handles, os>>
            ELSE /\ r \in OsListen(os[fd].st)
                 /\ os' = IF r = "ok" THEN [os EXCEPT ![fd].st = "listening"] ELSE os
                 /\ log' = <<Ev("listen", fd, r)>>
                 /\ result' = IF r # "ok"
                              THEN rb_sys_fail("listen", h, "listen(2)", r)
                              ELSE Return("listen", h, "int", <<0>>)
                 /\ UNCHANGED handles

sock_listen(h, logOk, r) ==
    /\ Idle
    /\ UNCHANGED <<arg, out>>
    /\ h \in HandleIds
    /\ IF ~logOk
       THEN /\ result' = rb_raise("listen", h, "TypeError")
            /\ log' = <<>>
            /\ UNCHANGED <<handles, os>>
       ELSE IF ~IsOpen(h)
       THEN /\ result' = rb_raise("listen", h, "IOError")
            /\ log' = <<>>
            /\ UNCHANGED <<handles, os>>
       ELSE LET fd == handles[h].fd IN
            /\ r \in OsListen(os[fd].st)
            /\ os' = IF r = "ok" THEN [os EXCEPT ![fd].st = "listening"] ELSE os
            /\ log' = <<Ev("listen", fd, r)>>
            /\ result' = IF r # "ok"
                         THEN rb_sys_fail("listen", h, "listen(2)", r)
                         ELSE Return("listen", h, "int", <<0>>)
            /\ UNCHANGED handles

(* ---------------------------------------------------------------------- *)
(* Socket#accept, Socket#accept_nonblock, Socket#sysaccept                 *)
(* ---------------------------------------------------------------------- *)
(* s_accept(klass, fd, buf, &len): the accept(2) call on the handle's      *)
(* descriptor.  A negative return raises; otherwise the new descriptor is  *)
(* wrapped in a handle of class klass, or handed back as an integer when   *)
(* klass is 0.                                                             *)
s_accept(op, h, klass, hs, o, lg, r) ==
    LET fd == hs[h].fd
        lg1 == Append(lg, Ev("accept", fd, r))
        fd2 == LowestFree(o)
        o2 == [o EXCEPT ![fd].pending = @ - 1, ![fd2] = NewSlot("connected")]
    IN CASE r = "block" ->
                [hs |-> hs, o |-> o, lg |-> lg1, res |-> Blocked(op, h)]
         [] r = "ok" /\ klass = 0 ->
                [hs |-> hs, o |-> o2, lg |-> lg1,
                 res |-> Return(op, h, "fd+addr", <<fd2>>)]
         [] r = "ok" /\ klass # 0 ->
                [hs |-> init_sock(hs, fd2), o |-> o2, lg |-> lg1,
                 res |-> Return(op, h, "handle+addr", <<Len(hs) + 1>>)]
         [] r = "ECONNABORTED" ->
                [hs |-> hs, o |-> [o EXCEPT ![fd].pending = @ - 1], lg |-> lg1,
                 res |-> rb_sys_fail(op, h, "accept(2)", r)]
         [] OTHER ->
                [hs |-> hs, o |-> o, lg |-> lg1,
                 res |-> rb_sys_fail(op, h, "accept(2)", r)]

(* s_accept_nonblock(klass, fptr, buf, &len): sets O_NONBLOCK, then as     *)
(* s_accept.                                                               *)
s_accept_nonblock(op, h, klass, hs, o, lg, r) ==
    LET fd == hs[h].fd
    IN s_accept(op, h, klass, hs, rb_io_set_nonblock(o, fd),
                Append(lg, Ev("set_nonblock", fd, "ok")), r)

sock_accept(h, r) ==
    /\ Idle
    /\ UNCHANGED <<arg, out>>
    /\ h \in HandleIds
    /\ Len(handles) < MaxHandles
    /\ IF ~IsOpen(h)
       THEN /\ result' = rb_raise("accept", h, "IOError")
            /\ log' = <<>>
            /\ UNCHANGED <<handles, os>>
       ELSE /\ r \in OsAccept(os, os[handles[h].fd])
            /\ LET A == s_accept("accept", h, 1, handles, os, <<>>, r) IN
               /\ handles' = A.hs
               /\ os' = A.o
               /\ log' = A.lg
               /\ result' = A.res

(* Faulty variant: calls s_accept, so O_NONBLOCK is never set.              *)
sock_accept_nonblock_blocking(h, r) ==
    /\ Idle
    /\ UNCHANGED <<arg, out>>
    /\ h \in HandleIds
    /\ Len(handles) < MaxHandles
    /\ IF ~IsOpen(h)
       THEN /\ result' = rb_raise("accept_nonblock", h, "IOError")
            /\ log' = <<>>
            /\ UNCHANGED <<handles, os>>
       ELSE /\ r \in OsAccept(os, os[handles[h].fd])
            /\ LET A == s_accept("accept_nonblock", h, 1, handles, os, <<>>, r) IN
               /\ handles' = A.hs
               /\ os' = A.o
               /\ log' = A.lg
               /\ result' = A.res

sock_accept_nonblock(h, r) ==
    /\ Idle
    /\ UNCHANGED <<arg, out>>
    /\ h \in HandleIds
    /\ Len(handles) < MaxHandles
    /\ IF ~IsOpen(h)
       THEN /\ result' = rb_raise("accept_nonblock", h, "IOError")
            /\ log' = <<>>
            /\ UNCHANGED <<handles, os>>
       ELSE LET fd == handles[h].fd
                o1 == rb_io_set_nonblock(os, fd)
            IN
            /\ r \in OsAccept(o1, o1[fd])
            /\ LET A == s_accept_nonblock("accept_nonblock", h, 1, handles, os, <<>>, r) IN
               /\ handles' = A.hs
               /\ os' = A.o
               /\ log' = A.lg
               /\ result' = A.res

sock_sysaccept(h, r) ==
    /\ Idle
    /\ UNCHANGED <<arg, out>>
    /\ h \in HandleIds
    /\ IF ~IsOpen(h)
       THEN /\ result' = rb_raise("sysaccept", h, "IOError")
            /\ log' = <<>>
            /\ UNCHANGED <<handles, os>>
       ELSE /\ r \in OsAccept(os, os[handles[h].fd])
            /\ LET A == s_accept("sysaccept", h, 0, handles, os, <<>>, r) IN
               /\ handles' = A.hs
               /\ os' = A.o
               /\ log' = A.lg
               /\ result' = A.res

(* A call blocked in accept(2) returns when a connection arrives.          *)
accept_wakeup(r) ==
    /\ result.outcome = "blocked"
    /\ UNCHANGED <<arg, out>>
    /\ LET h == result.h
           fd == handles[h].fd
           o1 == [os EXCEPT ![fd].pending = @ + 1]
           klass == IF result.op = "sysaccept" THEN 0 ELSE 1
       IN
       /\ r \in OsAccept(o1, o1[fd])
       /\ LET A == s_accept(result.op, h, klass, handles, o1, <<>>, r) IN
          /\ handles' = A.hs
          /\ os' = A.o
          /\ log' = A.lg
          /\ result' = A.res

(* A peer connects to a listening socket: the connection is queued.        *)
peer_connects(f) ==
    /\ Idle
    /\ UNCHANGED <<arg, out>>
    /\ os[f].st = "listening"
    /\ os[f].pending < MaxPending
    /\ os' = [os EXCEPT ![f].pending = @ + 1]
    /\ result' = NoCall
    /\ log' = <<>>
    /\ UNCHANGED handles

(* ---------------------------------------------------------------------- *)
(* Socket#recvfrom, Socket#recvfrom_nonblock                               *)
(* ---------------------------------------------------------------------- *)
(* s_recvfrom(sock, argc, argv, RECV_SOCKET): the recvfrom(2) call.        *)
s_recvfrom(op, h, hs, o, lg, r) ==
    [hs |-> hs, o |-> o, lg |-> Append(lg, Ev("recvfrom", hs[h].fd, r)),
     res |-> IF r # "ok"
             THEN rb_sys_fail(op, h, "recvfrom(2)", r)
             ELSE Return(op, h, "data+addr", <<>>)]

(* s_recvfrom_nonblock: sets O_NONBLOCK, then the recvfrom(2) call.        *)
s_recvfrom_nonblock(op, h, hs, o, lg, r) ==
    LET fd == hs[h].fd
    IN s_recvfrom(op, h, hs, rb_io_set_nonblock(o, fd),
                  Append(lg, Ev("set_nonblock", fd, "ok")), r)

sock_recvfrom(h, argsOk, r) ==
    /\ Idle
    /\ UNCHANGED <<arg, out>>
    /\ h \in HandleIds
    /\ IF ~argsOk
       THEN /\ result' = rb_raise("recvfrom", h, "ArgumentError")
            /\ log' = <<>>
            /\ UNCHANGED <<handles, os>>
       ELSE IF ~IsOpen(h)
       THEN /\ result' = rb_raise("recvfrom", h, "IOError")
            /\ log' = <<>>
            /\ UNCHANGED <<handles, os>>
       ELSE LET fd == handles[h].fd IN
            /\ r \in OsRecvfrom(os[fd].st, os[fd].nonblock)
            /\ LET A == s_recvfrom("recvfrom", h, handles, os, <<>>, r) IN
               /\ handles' = A.hs
               /\ os' = A.o
               /\ log' = A.lg
               /\ result' = A.res

sock_recvfrom_nonblock(h, argsOk, r) ==
    /\ Idle
    /\ UNCHANGED <<arg, out>>
    /\ h \in HandleIds
    /\ IF ~argsOk
       THEN /\ result' = rb_raise("recvfrom_nonblock", h, "ArgumentError")
            /\ log' = <<>>
            /\ UNCHANGED <<handles, os>>
       ELSE IF ~IsOpen(h)
       THEN /\ result' = rb_raise("recvfrom_nonblock", h, "IOError")
            /\ log' = <<>>
            /\ UNCHANGED <<handles, os>>
       ELSE LET fd == handles[h].fd IN
            /\ r \in OsRecvfrom(os[fd].st, TRUE)
            /\ LET A == s_recvfrom_nonblock("recvfrom_nonblock", h, handles, os, <<>>, r) IN
               /\ handles' = A.hs
               /\ os' = A.o
               /\ log' = A.lg
               /\ result' = A.res

(* ---------------------------------------------------------------------- *)
(* Next-state relation                                                     *)
(* ---------------------------------------------------------------------- *)
BlockOutcomes == {"return", "raise"}

(* The outcomes the kernel can give a call on handle h; a call on a closed *)
(* handle reaches no system call.                                          *)
ConnectResults(h) ==
    IF IsOpen(h)
    THEN OsConnect(os[handles[h].fd].st, FALSE) \cup OsConnect(os[handles[h].fd].st, TRUE)
    ELSE {"none"}

BindResults(h) == IF IsOpen(h) THEN OsBind(os[handles[h].fd].st) ELSE {"none"}

ListenResults(h) == IF IsOpen(h) THEN OsListen(os[handles[h].fd].st) ELSE {"none"}

AcceptResults(h) ==
    IF IsOpen(h)
    THEN LET fd == handles[h].fd
             o1 == rb_io_set_nonblock(os, fd)
         IN OsAccept(os, os[fd]) \cup OsAccept(o1, o1[fd])
    ELSE {"none"}

RecvfromResults(h) ==
    IF IsOpen(h)
    THEN OsRecvfrom(os[handles[h].fd].st, FALSE) \cup OsRecvfrom(os[handles[h].fd].st, TRUE)
    ELSE {"none"}

WakeupResults ==
    IF result.outcome = "blocked"
    THEN LET fd == handles[result.h].fd
             o1 == [os EXCEPT ![fd].pending = @ + 1]
         IN OsAccept(o1, o1[fd])
    ELSE {}

Next ==
    \/ \E r \in OsSocket(os) : sock_initialize(TRUE, r)
    \/ sock_initialize(FALSE, "none")
    \/ \E r1 \in OsSocketpair(os) : \E r2 \in SocketpairRetry(os, r1) :
          \/ sock_s_socketpair(TRUE, r1, r2, FALSE, {}, "return")
          \/ \E closes \in SUBSET {1, 2}, bo \in BlockOutcomes :
                sock_s_socketpair(TRUE, r1, r2, TRUE, closes, bo)
    \/ sock_s_socketpair(FALSE, "none", "none", FALSE, {}, "return")
    \/ \E h \in HandleIds :
          \/ \E r \in ConnectResults(h) : sock_connect(h, TRUE, r)
          \/ sock_connect(h, FALSE, "none")
    \/ \E h \in HandleIds :
          \/ \E r \in ConnectResults(h) : sock_connect_nonblock(h, TRUE, r)
          \/ sock_connect_nonblock(h, FALSE, "none")
    \/ \E h \in HandleIds :
          \/ \E r \in BindResults(h) : sock_bind(h, TRUE, r)
          \/ sock_bind(h, FALSE, "none")
    \/ \E h \in HandleIds :
          \/ \E r \in ListenResults(h) : sock_listen(h, TRUE, r)
          \/ sock_listen(h, FALSE, "none")
    \/ \E h \in HandleIds : \E r \in AcceptResults(h) : sock_accept(h, r)
    \/ \E h \in HandleIds : \E r \in AcceptResults(h) : sock_accept_nonblock(h, r)
    \/ \E h \in HandleIds : \E r \in AcceptResults(h) : sock_sysaccept(h, r)
    \/ \E r \in WakeupResults : accept_wakeup(r)
    \/ \E f \in Fds : peer_connects(f)
    \/ \E h \in HandleIds :
          \/ \E r \in RecvfromResults(h) : sock_recvfrom(h, TRUE, r)
          \/ sock_recvfrom(h, FALSE, "none")
    \/ \E h \in HandleIds :
          \/ \E r \in RecvfromResults(h) : sock_recvfrom_nonblock(h, TRUE, r)
          \/ sock_recvfrom_nonblock(h, FALSE, "none")
    \/ \E h \in HandleIds : io_call_close(h)

Spec == Init /\ [][Next]_vars

(* ---------------------------------------------------------------------- *)
(* Properties                                                              *)
(* ---------------------------------------------------------------------- *)
Events(lg, ev) == SelectSeq(lg, LAMBDA e : e.ev = ev)

Last(q) == q[Len(q)]

FdOf(h) == handles[h].fd

(* C1: Socket.socketpair issues socketpair(2) a second time if and only if *)
(* the first attempt failed with EMFILE or ENFILE, exactly one rb_gc runs  *)
(* between the two attempts, and there is never a third attempt; when the  *)
(* last attempt fails the socketpair(2) error is raised at once and no     *)
(* handle or descriptor is created.                                        *)
C1_SocketpairRetriesOnce ==
    [][(result'.op = "socketpair" /\ log' # <<>>) =>
         LET calls == Events(log', "socketpair")
             gcs == Events(log', "gc")
         IN /\ log'[1].ev = "socketpair"
            /\ Len(calls) \in {1, 2}
            /\ (Len(calls) = 2 <=> log'[1].res \in {"EMFILE", "ENFILE"})
            /\ (Len(calls) = 2 =>
                  /\ log'[2].ev = "gc"
                  /\ log'[3].ev = "socketpair"
                  /\ Len(gcs) = 1)
            /\ (Len(calls) = 1 => Len(gcs) = 0)
            /\ (Last(calls).res # "ok" =>
                  /\ result'.outcome = "raise"
                  /\ result'.err = "socketpair(2)"
                  /\ result'.errno = Last(calls).res
                  /\ Len(log') = Len(calls) + Len(gcs)
                  /\ handles' = handles
                  /\ os' = os)]_vars

C1_Witness ==
    /\ result.op = "socketpair"
    /\ result.outcome = "return"
    /\ Len(log) >= 3
    /\ log[1] = Ev("socketpair", NoFd, "EMFILE")
    /\ log[2].ev = "gc"
    /\ log[3] = Ev("socketpair", NoFd, "ok")

(* C2: when Socket.socketpair is called with a block, both ends are closed *)
(* when the call finishes, whether the block returned or raised; without a *)
(* block both ends are open when the call returns.                         *)
C2_PairClosedAfterBlock ==
    (result.op = "socketpair" /\ result.val # <<>>) =>
        IF result.kind = "pair"
        THEN IsOpen(result.val[1]) /\ IsOpen(result.val[2])
        ELSE ~IsOpen(result.val[1]) /\ ~IsOpen(result.val[2])

C2_Witness ==
    /\ result.op = "socketpair"
    /\ result.err = "BlockError"
    /\ Events(log, "block_close") = <<>>
    /\ ~IsOpen(result.val[1])
    /\ ~IsOpen(result.val[2])

ConnectGotEinprogress ==
    /\ result.op = "connect_nonblock"
    /\ log # <<>>
    /\ Events(log, "connect") # <<>>
    /\ Last(Events(log, "connect")).res = "EINPROGRESS"

(* C3 as stated: when connect(2) of connect_nonblock fails with            *)
(* EINPROGRESS the outcome is returned as a value and is not raised.       *)
C3_EinprogressReturned ==
    ConnectGotEinprogress => result.outcome = "return"

(* C3: when connect(2) of connect_nonblock fails with EINPROGRESS, the     *)
(* call raises the connect(2) system call error carrying EINPROGRESS, as   *)
(* for any other connect failure, and returns no value.                    *)
C3_EinprogressRaised ==
    ConnectGotEinprogress =>
        /\ result.outcome = "raise"
        /\ result.err = "connect(2)"
        /\ result.errno = "EINPROGRESS"
        /\ result.val = <<>>

C3_Witness ==
    /\ ConnectGotEinprogress
    /\ result.outcome = "raise"
    /\ os[FdOf(result.h)].st = "connecting"

(* C4: connect_nonblock on an open handle sets O_NONBLOCK on the           *)
(* descriptor and only then issues connect(2), on every call; on a closed  *)
(* handle it does neither.                                                 *)
C4_NonblockBeforeConnect ==
    (result.op = "connect_nonblock" /\ result.err # "TypeError") =>
        IF IsOpen(result.h)
        THEN /\ Len(log) = 2
             /\ log[1] = Ev("set_nonblock", FdOf(result.h), "ok")
             /\ log[2].ev = "connect"
             /\ log[2].fd = FdOf(result.h)
             /\ os[FdOf(result.h)].nonblock
        ELSE /\ log = <<>>
             /\ result.outcome = "raise"

C4_Witness ==
    /\ result.op = "connect_nonblock"
    /\ IsOpen(result.h)
    /\ Len(log) = 2
    /\ log[2] = Ev("connect", FdOf(result.h), "ok")
    /\ os[FdOf(result.h)].nonblock

(* C5: once O_NONBLOCK is set on a handle's descriptor it stays set for as *)
(* long as the handle keeps that descriptor, whatever method runs next.    *)
C5_NonblockStaysSet ==
    [][\A h \in HandleIds :
          (IsOpen(h) /\ os[FdOf(h)].nonblock /\ handles'[h].fd = FdOf(h))
              => os'[FdOf(h)].nonblock]_vars

C5_Witness ==
    /\ result.op \in {"connect", "bind", "listen"}
    /\ log # <<>>
    /\ IsOpen(result.h)
    /\ os[FdOf(result.h)].nonblock

HandleOps ==
    {"connect", "connect_nonblock", "bind", "listen", "accept", "accept_nonblock",
     "sysaccept"}

(* C6: connect, connect_nonblock, bind, listen, accept, accept_nonblock    *)
(* and sysaccept on a closed handle raise and issue no system call.        *)
C6_ClosedHandleRejected ==
    (result.op \in HandleOps /\ ~IsOpen(result.h)) =>
        /\ result.outcome = "raise"
        /\ log = <<>>

C6_Witness ==
    /\ result.op = "bind"
    /\ ~IsOpen(result.h)
    /\ result.err = "IOError"

(* C7: no two open handles own the same descriptor; in particular the two  *)
(* handles of a socketpair, and a listening handle and the handle accept   *)
(* returned, have different descriptors.                                   *)
C7_NoSharedDescriptor ==
    \A h1 \in OpenHandles, h2 \in OpenHandles : h1 # h2 => FdOf(h1) # FdOf(h2)

C7_Witness ==
    /\ result.op = "socketpair"
    /\ result.kind = "pair"
    /\ IsOpen(result.val[1])
    /\ IsOpen(result.val[2])
    /\ os[FdOf(result.val[1])].st = "connected"
    /\ os[FdOf(result.val[2])].st = "connected"

SyscallOps == {"new", "socketpair", "connect", "connect_nonblock", "bind", "listen"}

Syscalls == {"socket", "socketpair", "connect", "bind", "listen"}

SyscallName(ev) == ev \o "(2)"

(* What the failure of the system call logged as e does to the call.       *)
FailureRaised(e, res, hs0, hs1) ==
    /\ res.outcome = "raise"
    /\ res.err = SyscallName(e.ev)
    /\ res.errno = e.res
    /\ res.val = <<>>
    /\ (res.op = "new" => hs1 = hs0)

(* C8 as stated: every failing system call in Socket.new, socketpair,      *)
(* connect, connect_nonblock, bind and listen raises the error naming that *)
(* system call and returns no value, and Socket.new initialises no handle. *)
C8_EveryFailureRaises ==
    [][result'.op \in SyscallOps =>
         \A i \in 1..Len(log') :
            (log'[i].ev \in Syscalls /\ log'[i].res # "ok")
                => FailureRaised(log'[i], result', handles, handles')]_vars

(* C8: the same, except for a first socketpair(2) that fails with EMFILE   *)
(* or ENFILE and is retried: that failure is not raised, the failure of    *)
(* the retry is.                                                           *)
C8_FailureRaisesUnlessRetried ==
    [][result'.op \in SyscallOps =>
         \A i \in 1..Len(log') :
            (/\ log'[i].ev \in Syscalls
             /\ log'[i].res # "ok"
             /\ ~(/\ log'[i].ev = "socketpair"
                  /\ log'[i].res \in {"EMFILE", "ENFILE"}
                  /\ i < Len(log')
                  /\ log'[i + 1].ev = "gc"))
                => FailureRaised(log'[i], result', handles, handles')]_vars

C8_Witness ==
    /\ result.op = "listen"
    /\ log = <<Ev("listen", FdOf(result.h), "EADDRINUSE")>>
    /\ result.outcome = "raise"
    /\ result.err = "listen(2)"

LifecycleOps == {"bind", "listen", "connect", "accept"}

(* C9: on an open handle bind, listen, connect and accept issue their      *)
(* system call whatever state the socket is in, and the call raises        *)
(* exactly when the kernel returns an error, with that error.              *)
C9_KernelDecidesTransitions ==
    (/\ result.op \in LifecycleOps
     /\ result.err # "TypeError"
     /\ IsOpen(result.h)) =>
        /\ Len(log) = 1
        /\ log[1].ev = result.op
        /\ log[1].fd = FdOf(result.h)
        /\ (result.outcome = "raise" <=> log[1].res \notin {"ok", "block"})
        /\ (result.outcome = "raise" => result.errno = log[1].res)

C9_Witness ==
    /\ result.op = "listen"
    /\ IsOpen(result.h)
    /\ os[FdOf(result.h)].st = "created"
    /\ log = <<Ev("listen", FdOf(result.h), "EDESTADDRREQ")>>
    /\ result.outcome = "raise"

(* C10: accept_nonblock on a listening socket with no queued connection    *)
(* does not block: it raises the accept(2) error carrying EWOULDBLOCK,     *)
(* creates no handle and leaves the listening handle open and listening.   *)
C10_AcceptNonblockRetrySignal ==
    [][(/\ result'.op = "accept_nonblock"
        /\ result'.h \in OpenHandles
        /\ os[FdOf(result'.h)].st = "listening"
        /\ os[FdOf(result'.h)].pending = 0) =>
          /\ result'.outcome = "raise"
          /\ result'.err = "accept(2)"
          /\ result'.errno = "EWOULDBLOCK"
          /\ handles' = handles
          /\ os'[FdOf(result'.h)].st = "listening"
          /\ Free(os') = Free(os)]_vars

C10_Witness ==
    /\ result.op = "accept_nonblock"
    /\ result.errno = "EWOULDBLOCK"
    /\ IsOpen(result.h)
    /\ os[FdOf(result.h)].st = "listening"
    /\ os[FdOf(result.h)].pending = 0
    /\ os[FdOf(result.h)].nonblock

(* ====================================================================== *)
(* Address codec                                                           *)
(* ====================================================================== *)
(* A sockaddr is a Ruby string: a sequence of bytes.  The layout is the    *)
(* one the examples in the source show: a two byte family in host (little  *)
(* endian) order at offset 0, then the family's fields.                    *)

(* sizeof(sun_path); 108 on the platform, scaled down here.                *)
SunPathSize == 3

AF_UNIX == 1
AF_INET == 2
AF_INET6 == 10

(* offsetof(struct sockaddr, sa_family) and sizeof(sa_family).             *)
FamilyOffset == 0
FamilySize == 2
FamilyEnd == FamilyOffset + FamilySize

(* offsetof(struct sockaddr_un, sun_path), sizeof(struct sockaddr_un).     *)
SunPathOffset == FamilyEnd
SizeofSockaddrUn == SunPathOffset + SunPathSize

ByteVals == {0, 1, 2}

ByteSeqs(n) == UNION {[1..k -> ByteVals] : k \in 0..n}

Returned(fn, val, reads) ==
    [fn |-> fn, outcome |-> "return", err |-> "", val |-> val, reads |-> reads,
     src |-> "arg", given |-> <<>>]

Raised(fn, err, reads) ==
    [fn |-> fn, outcome |-> "raise", err |-> err, val |-> <<>>, reads |-> reads,
     src |-> "arg", given |-> <<>>]

(* The byte at offset i of a Ruby string: the string's bytes, then the NUL *)
(* that terminates every Ruby string, then whatever memory follows (g).    *)
Mem(buf, i, g) ==
    IF i < Len(buf) THEN buf[i + 1] ELSE IF i = Len(buf) THEN 0 ELSE g

(* strlen at offset off of the string's memory.                            *)
RECURSIVE StrLen(_, _)
StrLen(buf, off) ==
    IF off >= Len(buf) \/ buf[off + 1] = 0 THEN 0 ELSE 1 + StrLen(buf, off + 1)

(* sa_family as the host reads it.                                         *)
sa_family(buf, g) == Mem(buf, FamilyOffset, g) + 256 * Mem(buf, FamilyOffset + 1, g)

Zeros(n) == [i \in 1..n |-> 0]

Take(q, n) == SubSeq(q, 1, IF n < Len(q) THEN n ELSE Len(q))

(* strncpy(dst, src, n) into a zeroed field of size bytes.                 *)
Strncpy(size, src, n) ==
    LET copied == Take(src, n)
    IN copied \o Zeros(size - Len(copied))

(* StringValueCStr(path): refuses a string with an embedded NUL.           *)
HasNul(q) == \E i \in 1..Len(q) : q[i] = 0

(* Faulty variant: the length test is < instead of <=.                     *)
sock_s_pack_sockaddr_un_off_by_one(path) ==
    IF HasNul(path)
    THEN Raised("pack_sockaddr_un", "ArgumentError: string contains null byte", {})
    ELSE IF SunPathSize < StrLen(path, 0)
    THEN Raised("pack_sockaddr_un", "ArgumentError: too long unix socket path", {})
    ELSE Returned("pack_sockaddr_un",
                  <<AF_UNIX % 256, AF_UNIX \div 256>>
                      \o Strncpy(SunPathSize, path, SunPathSize - 1), {})

(* Faulty variant: strncpy copies one byte less.                           *)
sock_s_pack_sockaddr_un_short_copy(path) ==
    IF HasNul(path)
    THEN Raised("pack_sockaddr_un", "ArgumentError: string contains null byte", {})
    ELSE IF SunPathSize <= StrLen(path, 0)
    THEN Raised("pack_sockaddr_un", "ArgumentError: too long unix socket path", {})
    ELSE Returned("pack_sockaddr_un",
                  <<AF_UNIX % 256, AF_UNIX \div 256>>
                      \o Strncpy(SunPathSize, path, SunPathSize - 2), {})

sock_s_pack_sockaddr_un(path) ==
    IF HasNul(path)
    THEN Raised("pack_sockaddr_un", "ArgumentError: string contains null byte", {})
    ELSE IF SunPathSize <= StrLen(path, 0)
    THEN Raised("pack_sockaddr_un", "ArgumentError: too long unix socket path", {})
    ELSE Returned("pack_sockaddr_un",
                  <<AF_UNIX % 256, AF_UNIX \div 256>>
                      \o Strncpy(SunPathSize, path, SunPathSize - 1), {})

(* unixpath(sockaddr, len): sun_path when the string reaches it, else the  *)
(* constant "".  A pointer is the offset it points at; NoFd stands for the *)
(* constant.                                                               *)
unixpath(len) == IF SunPathOffset < len THEN SunPathOffset ELSE NoFd

(* rb_str_new2(p): the bytes at p up to the first NUL.                     *)
rb_str_new2(buf, p) ==
    IF p = NoFd THEN <<>> ELSE SubSeq(buf, p + 1, p + StrLen(buf, p))

(* Faulty variant: the test of the family reads sa_family without the      *)
(* length having been checked against its size.                            *)
sock_s_unpack_sockaddr_un_no_size(addr) ==
    LET len == Len(addr)
        sun_path == unixpath(len)
    IN IF len < FamilyOffset
       THEN Raised("unpack_sockaddr_un", "ArgumentError: too short sockaddr", {})
       ELSE IF sa_family(addr, 0) # AF_UNIX
       THEN Raised("unpack_sockaddr_un", "ArgumentError: not an AF_UNIX sockaddr",
                   {"family"})
       ELSE IF SizeofSockaddrUn < len
       THEN Raised("unpack_sockaddr_un", "TypeError: too long sockaddr_un", {"family"})
       ELSE IF /\ SizeofSockaddrUn = len
               /\ sun_path = SunPathOffset
               /\ sun_path + StrLen(addr, sun_path) = len
       THEN Raised("unpack_sockaddr_un",
                   "ArgumentError: sockaddr_un.sun_path not NUL terminated",
                   {"family", "sun_path"})
       ELSE Returned("unpack_sockaddr_un", rb_str_new2(addr, sun_path),
                     {"family", "sun_path"})

(* Faulty variant: a full path field is accepted.                          *)
sock_s_unpack_sockaddr_un_accepts_full(addr) ==
    LET len == Len(addr)
        sun_path == unixpath(len)
    IN IF len < FamilyEnd
       THEN Raised("unpack_sockaddr_un", "ArgumentError: too short sockaddr", {})
       ELSE IF sa_family(addr, 0) # AF_UNIX
       THEN Raised("unpack_sockaddr_un", "ArgumentError: not an AF_UNIX sockaddr",
                   {"family"})
       ELSE IF SizeofSockaddrUn < len
       THEN Raised("unpack_sockaddr_un", "TypeError: too long sockaddr_un", {"family"})
       ELSE Returned("unpack_sockaddr_un", rb_str_new2(addr, sun_path),
                     {"family", "sun_path"})

(* Faulty variant: the test for a missing NUL does not ask for a string of *)
(* the full structure size.                                                *)
sock_s_unpack_sockaddr_un_any_length(addr) ==
    LET len == Len(addr)
        sun_path == unixpath(len)
    IN IF len < FamilyEnd
       THEN Raised("unpack_sockaddr_un", "ArgumentError: too short sockaddr", {})
       ELSE IF sa_family(addr, 0) # AF_UNIX
       THEN Raised("unpack_sockaddr_un", "ArgumentError: not an AF_UNIX sockaddr",
                   {"family"})
       ELSE IF SizeofSockaddrUn < len
       THEN Raised("unpack_sockaddr_un", "TypeError: too long sockaddr_un", {"family"})
       ELSE IF /\ sun_path = SunPathOffset
               /\ sun_path + StrLen(addr, sun_path) = len
       THEN Raised("unpack_sockaddr_un",
                   "ArgumentError: sockaddr_un.sun_path not NUL terminated",
                   {"family", "sun_path"})
       ELSE Returned("unpack_sockaddr_un", rb_str_new2(addr, sun_path),
                     {"family", "sun_path"})

sock_s_unpack_sockaddr_un(addr) ==
    LET len == Len(addr)
        sun_path == unixpath(len)
    IN IF len < FamilyEnd
       THEN Raised("unpack_sockaddr_un", "ArgumentError: too short sockaddr", {})
       ELSE IF sa_family(addr, 0) # AF_UNIX
       THEN Raised("unpack_sockaddr_un", "ArgumentError: not an AF_UNIX sockaddr",
                   {"family"})
       ELSE IF SizeofSockaddrUn < len
       THEN Raised("unpack_sockaddr_un", "TypeError: too long sockaddr_un", {"family"})
       ELSE IF /\ SizeofSockaddrUn = len
               /\ sun_path = SunPathOffset
               /\ sun_path + StrLen(addr, sun_path) = len
       THEN Raised("unpack_sockaddr_un",
                   "ArgumentError: sockaddr_un.sun_path not NUL terminated",
                   {"family", "sun_path"})
       ELSE Returned("unpack_sockaddr_un", rb_str_new2(addr, sun_path),
                     {"family", "sun_path"})

(* ---------------------------------------------------------------------- *)
(* sockaddr_in, sockaddr_in6                                               *)
(* ---------------------------------------------------------------------- *)
(* struct sockaddr_in: family, sin_port at 2, sin_addr at 4, 16 bytes.     *)
(* struct sockaddr_in6: family, sin6_port at 2, sin6_flowinfo at 4,        *)
(* sin6_addr at 8, sin6_scope_id at 24, 28 bytes.                          *)
SizeofSockaddrIn == 16
SizeofSockaddrIn6 == 28
SinPortOffset == 2
SinAddrOffset == 4
SinAddrSize == 4
Sin6AddrOffset == 8
Sin6AddrSize == 16

SizeofFamily(fam) == IF fam = AF_INET6 THEN SizeofSockaddrIn6 ELSE SizeofSockaddrIn

AddrOffset(fam) == IF fam = AF_INET6 THEN Sin6AddrOffset ELSE SinAddrOffset

AddrSize(fam) == IF fam = AF_INET6 THEN Sin6AddrSize ELSE SinAddrSize

(* htons, ntohs on a little endian host: the two bytes change places.      *)
htons(x) == (x % 256) * 256 + (x \div 256)

ntohs(x) == (x % 256) * 256 + (x \div 256)

(* A 16 bit field as the host reads it from memory at offset off.          *)
ReadU16(buf, off, g) == Mem(buf, off, g) + 256 * Mem(buf, off + 1, g)

(* A 16 bit host value as the bytes it occupies in memory.                 *)
WriteU16(x) == <<x % 256, x \div 256>>

(* make_ipaddr(sockaddr): the numeric host of the address bytes of the     *)
(* sockaddr's family.  A numeric host is its family and its octets.        *)
make_ipaddr(buf, g) ==
    LET fam == sa_family(buf, g)
    IN [family |-> fam,
        octets |-> [i \in 1..AddrSize(fam) |-> Mem(buf, AddrOffset(fam) + i - 1, g)]]

(* sock_addrinfo(host, port, 0, 0): the sockaddr the resolver builds for a *)
(* numeric host and a port: family, port in network order, address, zero   *)
(* fill.                                                                   *)
sock_addrinfo(host, port) ==
    LET fam == host.family
        head == WriteU16(fam) \o WriteU16(htons(port))
    IN head \o Zeros(AddrOffset(fam) - Len(head)) \o host.octets
            \o Zeros(SizeofFamily(fam) - AddrOffset(fam) - AddrSize(fam))

sock_s_pack_sockaddr_in(port, host) ==
    Returned("pack_sockaddr_in", sock_addrinfo(host, port), {})

PastEnd(buf, size) == IF Len(buf) < size THEN {"past_end"} ELSE {}

(* Faulty variant: sin_port is handed back without ntohs.                  *)
sock_s_unpack_sockaddr_in_no_ntohs(addr, g) ==
    IF Len(addr) < FamilyEnd
    THEN Raised("unpack_sockaddr_in", "ArgumentError: too short sockaddr", {})
    ELSE IF sa_family(addr, g) # AF_INET /\ sa_family(addr, g) # AF_INET6
    THEN Raised("unpack_sockaddr_in", "ArgumentError: not an AF_INET/AF_INET6 sockaddr",
                {"family"})
    ELSE Returned("unpack_sockaddr_in",
                  <<ReadU16(addr, SinPortOffset, g), make_ipaddr(addr, g)>>,
                  {"family", "port", "addr"}
                      \cup PastEnd(addr, SizeofFamily(sa_family(addr, g))))

(* Faulty variant: the family is not tested.                               *)
sock_s_unpack_sockaddr_in_any_family(addr, g) ==
    IF Len(addr) < FamilyEnd
    THEN Raised("unpack_sockaddr_in", "ArgumentError: too short sockaddr", {})
    ELSE Returned("unpack_sockaddr_in",
                  <<ntohs(ReadU16(addr, SinPortOffset, g)), make_ipaddr(addr, g)>>,
                  {"family", "port", "addr"}
                      \cup PastEnd(addr, SizeofFamily(sa_family(addr, g))))

sock_s_unpack_sockaddr_in(addr, g) ==
    IF Len(addr) < FamilyEnd
    THEN Raised("unpack_sockaddr_in", "ArgumentError: too short sockaddr", {})
    ELSE IF sa_family(addr, g) # AF_INET /\ sa_family(addr, g) # AF_INET6
    THEN Raised("unpack_sockaddr_in", "ArgumentError: not an AF_INET/AF_INET6 sockaddr",
                {"family"})
    ELSE Returned("unpack_sockaddr_in",
                  <<ntohs(ReadU16(addr, SinPortOffset, g)), make_ipaddr(addr, g)>>,
                  {"family", "port", "addr"}
                      \cup PastEnd(addr, SizeofFamily(sa_family(addr, g))))

(* sock_sockaddr(addr, len): the raw address bytes of a resolver's         *)
(* sockaddr.                                                               *)
sock_sockaddr(addr) ==
    LET fam == sa_family(addr, 0)
    IN IF fam = AF_INET \/ fam = AF_INET6
       THEN Returned("sock_sockaddr",
                     SubSeq(addr, AddrOffset(fam) + 1, AddrOffset(fam) + AddrSize(fam)),
                     {"family", "addr"})
       ELSE Raised("sock_sockaddr", "SocketError: unknown socket family", {"family"})

(* ---------------------------------------------------------------------- *)
(* Calls of the codec                                                      *)
(* ---------------------------------------------------------------------- *)
(* The bytes a read past the end of the string's buffer (beyond its        *)
(* terminator) may find: whatever the heap holds there.                    *)
Garbage == {0, 255}

(* The outcome r of a call, with its argument and where that came from.    *)
Call(r, src, given) == [r EXCEPT !.src = src, !.given = given]

(* Socket.pack_sockaddr_un(arg) *)
call_pack_sockaddr_un ==
    /\ out = NotCalled
    /\ out' = Call(sock_s_pack_sockaddr_un(arg), "arg", arg)
    /\ UNCHANGED <<sockvars, arg>>

(* Socket.unpack_sockaddr_un(arg) *)
call_unpack_sockaddr_un ==
    /\ out = NotCalled
    /\ out' = Call(sock_s_unpack_sockaddr_un(arg), "arg", arg)
    /\ UNCHANGED <<sockvars, arg>>

(* Socket.unpack_sockaddr_un(Socket.pack_sockaddr_un(arg)) *)
call_unpack_packed_un ==
    /\ out.fn = "pack_sockaddr_un"
    /\ out.outcome = "return"
    /\ out' = Call(sock_s_unpack_sockaddr_un(out.val), "packed", out.val)
    /\ UNCHANGED <<sockvars, arg>>

(* Socket.unpack_sockaddr_in(arg) *)
call_unpack_sockaddr_in(g) ==
    /\ out = NotCalled
    /\ out' = Call(sock_s_unpack_sockaddr_in(arg, g), "arg", arg)
    /\ UNCHANGED <<sockvars, arg>>

InitUnix ==
    /\ handles = <<>>
    /\ os = [f \in Fds |-> FreeSlot]
    /\ result = NoCall
    /\ log = <<>>
    /\ arg \in ByteSeqs(SizeofSockaddrUn + 1)
    /\ out = NotCalled

NextUnix ==
    \/ call_pack_sockaddr_un
    \/ call_unpack_sockaddr_un
    \/ call_unpack_packed_un
    \/ \E g \in Garbage : call_unpack_sockaddr_in(g)

SpecUnix == InitUnix /\ [][NextUnix]_vars

(* ---------------------------------------------------------------------- *)
(* Calls of the sockaddr_in codec                                          *)
(* ---------------------------------------------------------------------- *)
(* Ports: the ends of the range and values whose two bytes differ.         *)
Ports == {0, 1, 80, 255, 256, 8080, 65535}

(* Numeric hosts, as the resolver holds them: 127.0.0.1, 10.1.2.3,         *)
(* 255.255.255.255, ::1, 2001:db8::1 and an address of sixteen different   *)
(* octets.                                                                 *)
Hosts ==
    {[family |-> AF_INET, octets |-> <<127, 0, 0, 1>>],
     [family |-> AF_INET, octets |-> <<10, 1, 2, 3>>],
     [family |-> AF_INET, octets |-> <<255, 255, 255, 255>>],
     [family |-> AF_INET6, octets |-> [i \in 1..Sin6AddrSize |-> IF i = Sin6AddrSize THEN 1 ELSE 0]],
     [family |-> AF_INET6, octets |-> <<32, 1, 13, 184>> \o [i \in 1..12 |-> IF i = 12 THEN 1 ELSE 0]],
     [family |-> AF_INET6, octets |-> [i \in 1..Sin6AddrSize |-> 16 * i]]}

(* Family tags a buffer may carry: unspecified, the three the codec knows  *)
(* and one it does not.                                                    *)
Families == {0, AF_UNIX, AF_INET, AF_INET6, AF_INET6 + 1}

(* buf with its family tag overwritten.                                    *)
Retag(buf, fam) == WriteU16(fam) \o SubSeq(buf, FamilyEnd + 1, Len(buf))

(* buf cut or zero-extended to n bytes.                                    *)
Resize(buf, n) == IF n <= Len(buf) THEN Take(buf, n) ELSE buf \o Zeros(n - Len(buf))

BufLens == 0..(SizeofSockaddrIn6 + 1)

(* Socket.pack_sockaddr_in(arg.port, arg.host) *)
call_pack_sockaddr_in ==
    /\ out = NotCalled
    /\ out' = Call(sock_s_pack_sockaddr_in(arg.port, arg.host), "arg", <<>>)
    /\ UNCHANGED <<sockvars, arg>>

(* Socket.unpack_sockaddr_in of a packed sockaddr, as packed or with its   *)
(* family tag or its length changed.                                       *)
call_unpack_sockaddr_in_of(n, fam, g) ==
    /\ out.fn = "pack_sockaddr_in"
    /\ LET buf == Resize(Retag(out.val, fam), n)
       IN out' = Call(sock_s_unpack_sockaddr_in(buf, g),
                      IF buf = out.val THEN "packed" ELSE "edited", buf)
    /\ UNCHANGED <<sockvars, arg>>

(* Socket.unpack_sockaddr_un of the same buffers. *)
call_unpack_sockaddr_un_of(n, fam) ==
    /\ out.fn = "pack_sockaddr_in"
    /\ LET buf == Resize(Retag(out.val, fam), n)
       IN out' = Call(sock_s_unpack_sockaddr_un(buf), "edited", buf)
    /\ UNCHANGED <<sockvars, arg>>

(* sock_sockaddr of a resolver's sockaddr: a complete structure of its   *)
(* family, or one of a family sock_sockaddr does not know.                 *)
call_sock_sockaddr(fam) ==
    /\ out.fn = "pack_sockaddr_in"
    /\ fam \in {AF_INET, AF_INET6} => fam = sa_family(out.val, 0)
    /\ LET buf == Retag(out.val, fam)
       IN out' = Call(sock_sockaddr(buf),
                      IF buf = out.val THEN "packed" ELSE "edited", buf)
    /\ UNCHANGED <<sockvars, arg>>

InitInet ==
    /\ handles = <<>>
    /\ os = [f \in Fds |-> FreeSlot]
    /\ result = NoCall
    /\ log = <<>>
    /\ arg \in [port : Ports, host : Hosts]
    /\ out = NotCalled

NextInet ==
    \/ call_pack_sockaddr_in
    \/ \E n \in BufLens, fam \in Families, g \in Garbage :
          call_unpack_sockaddr_in_of(n, fam, g)
    \/ \E n \in BufLens, fam \in Families : call_unpack_sockaddr_un_of(n, fam)
    \/ \E fam \in Families : call_sock_sockaddr(fam)

SpecInet == InitInet /\ [][NextInet]_vars

(* ====================================================================== *)
(* Service resolution                                                      *)
(* ====================================================================== *)
(* A name is a sequence of characters.  The longest name handed in:        *)
MaxNameLen == 3

(* Characters of the names: decimal, octal and hexadecimal digits, the hex *)
(* prefix letter, a sign and white space.                                  *)
NameChars == {"0", "1", "8", "a", "x", "-", " "}

Names == UNION {[1..k -> NameChars] : k \in 0..MaxNameLen}

(* The value of a character as a digit.                                    *)
Digit == [c \in {"0", "1", "8", "a"} |->
             IF c = "0" THEN 0 ELSE IF c = "1" THEN 1 ELSE IF c = "8" THEN 8 ELSE 10]

IsDigit(c, base) == c \in DOMAIN Digit /\ Digit[c] < base

(* s[i], or the terminating NUL (written "") at and after the end.         *)
CharAt(s, i) == IF i >= 1 /\ i <= Len(s) THEN s[i] ELSE ""

(* The number of leading white space characters of s.                      *)
RECURSIVE SkipSpace(_, _)
SkipSpace(s, i) == IF CharAt(s, i + 1) = " " THEN SkipSpace(s, i + 1) ELSE i

(* The number of digits of the base in s from position i + 1.              *)
RECURSIVE DigitRun(_, _, _)
DigitRun(s, i, base) ==
    IF IsDigit(CharAt(s, i + 1), base) THEN 1 + DigitRun(s, i + 1, base) ELSE 0

(* The number the digits s[i + 1 .. i + n] write in the base, after acc.   *)
RECURSIVE Accumulate(_, _, _, _, _)
Accumulate(s, i, n, base, acc) ==
    IF n = 0 THEN acc
    ELSE Accumulate(s, i + 1, n - 1, base, acc * base + Digit[s[i + 1]])

(* strtoul(s, &end, base) with the value taken as the int it is assigned   *)
(* to: white space, an optional sign, with base 0 a 0x prefix for          *)
(* hexadecimal or a leading 0 for octal, then the digits.  end is the      *)
(* number of characters consumed, 0 when there is no digit.  (Names are    *)
(* too short for the value to leave the range of int.)                     *)
Strtoul(s, base0) ==
    LET sp == SkipSpace(s, 0)
        neg == CharAt(s, sp + 1) = "-"
        b == IF neg THEN sp + 1 ELSE sp
        hex == /\ base0 = 0
               /\ CharAt(s, b + 1) = "0"
               /\ CharAt(s, b + 2) = "x"
               /\ IsDigit(CharAt(s, b + 3), 16)
        base == IF base0 # 0 THEN base0
                ELSE IF hex THEN 16
                ELSE IF CharAt(s, b + 1) = "0" THEN 8 ELSE 10
        start == IF hex THEN b + 2 ELSE b
        n == DigitRun(s, start, base)
        v == Accumulate(s, start, n, base, 0)
    IN IF n = 0 THEN [val |-> 0, end |-> 0]
       ELSE [val |-> IF neg THEN 0 - v ELSE v, end |-> start + n]

(* The services database: entries of /etc/services.                        *)
ServEntries ==
    {[s_name |-> <<"a">>, port |-> 80, s_proto |-> "tcp"],
     [s_name |-> <<"8">>, port |-> 256, s_proto |-> "tcp"],
     [s_name |-> <<"a">>, port |-> 1, s_proto |-> "udp"]}

Databases == SUBSET ServEntries

(* The proto argument: not given ("nil") or a protocol name.               *)
ProtoArgs == {"nil", "tcp", "udp"}

(* const char *protoname = "tcp"; if (!NIL_P(proto)) protoname = ...       *)
ProtoName(proto) == IF proto = "nil" THEN "tcp" ELSE proto

(* getservbyname(3), getservbyport(3): the entries found, s_port in        *)
(* network order.                                                          *)
getservbyname(db, name, protoname) ==
    {e \in db : e.s_name = name /\ e.s_proto = protoname}

getservbyport(db, s_port, protoname) ==
    {e \in db : htons(e.port) = s_port /\ e.s_proto = protoname}

NoSuchService == "SocketError: no such service"

NoSuchPort == "SocketError: no such service for port"

(* Faulty variant: the name is parsed in base 10.                          *)
sock_s_getservbyname_base10(db, service, proto) ==
    LET sp == getservbyname(db, service, ProtoName(proto))
        parsed == Strtoul(service, 10)
    IN IF sp # {}
       THEN Returned("getservbyname", ntohs(htons((CHOOSE e \in sp : TRUE).port)), {})
       ELSE IF CharAt(service, parsed.end + 1) # ""
       THEN Raised("getservbyname", NoSuchService, {})
       ELSE Returned("getservbyname", parsed.val, {})

sock_s_getservbyname(db, service, proto) ==
    LET sp == getservbyname(db, service, ProtoName(proto))
        parsed == Strtoul(service, 0)
    IN IF sp # {}
       THEN Returned("getservbyname", ntohs(htons((CHOOSE e \in sp : TRUE).port)), {})
       ELSE IF CharAt(service, parsed.end + 1) # ""
       THEN Raised("getservbyname", NoSuchService, {})
       ELSE Returned("getservbyname", parsed.val, {})

(* The decimal text of a natural number.                                   *)
DigitChars == <<"0", "1", "2", "3", "4", "5", "6", "7", "8", "9">>

RECURSIVE ToS(_)
ToS(n) == IF n < 10 THEN <<DigitChars[n + 1]>>
          ELSE ToS(n \div 10) \o <<DigitChars[(n % 10) + 1]>>

(* (uint16_t)portnum *)
Uint16(n) == n % 65536

(* const char *s = portnum > 0 ? "big" : "small"; rb_raise(rb_eRangeError) *)
RangeErrorOf(portnum) ==
    IF portnum > 0 THEN "RangeError: integer too big to convert into `int16_t'"
    ELSE "RangeError: integer too small to convert into `int16_t'"

(* Faulty variant: a port without entry is returned as text.               *)
sock_s_getservbyport_literal(db, portnum, proto) ==
    LET sp == getservbyport(db, htons(Uint16(portnum)), ProtoName(proto))
    IN IF portnum # Uint16(portnum)
       THEN Raised("getservbyport", RangeErrorOf(portnum), {})
       ELSE IF sp = {}
       THEN Returned("getservbyport", ToS(portnum), {"htons", "services"})
       ELSE Returned("getservbyport", (CHOOSE e \in sp : TRUE).s_name,
                     {"htons", "services"})

(* Faulty variant: no range test, the port is truncated to 16 bits.        *)
sock_s_getservbyport_truncates(db, portnum, proto) ==
    LET sp == getservbyport(db, htons(Uint16(portnum)), ProtoName(proto))
    IN IF sp = {}
       THEN Raised("getservbyport", NoSuchPort, {"htons", "services"})
       ELSE Returned("getservbyport", (CHOOSE e \in sp : TRUE).s_name,
                     {"htons", "services"})

(* reads records what the call did after the range test: the conversion    *)
(* to network order and the lookup in the services database.               *)
sock_s_getservbyport(db, portnum, proto) ==
    LET sp == getservbyport(db, htons(Uint16(portnum)), ProtoName(proto))
    IN IF portnum # Uint16(portnum)
       THEN Raised("getservbyport", RangeErrorOf(portnum), {})
       ELSE IF sp = {}
       THEN Raised("getservbyport", NoSuchPort, {"htons", "services"})
       ELSE Returned("getservbyport", (CHOOSE e \in sp : TRUE).s_name,
                     {"htons", "services"})

(* Port arguments: in range, and just outside it on both sides.            *)
ServPorts == {0 - 65536, 0 - 1, 0, 1, 80, 256, 65535, 65536, 65616}

(* Socket.getservbyname(arg.name [, arg.proto]) *)
call_getservbyname ==
    /\ out = NotCalled
    /\ arg.method = "getservbyname"
    /\ out' = Call(sock_s_getservbyname(arg.db, arg.name, arg.proto), "arg", <<>>)
    /\ UNCHANGED <<sockvars, arg>>

(* Socket.getservbyport(arg.port [, arg.proto]) *)
call_getservbyport ==
    /\ out = NotCalled
    /\ arg.method = "getservbyport"
    /\ out' = Call(sock_s_getservbyport(arg.db, arg.port, arg.proto), "arg", <<>>)
    /\ UNCHANGED <<sockvars, arg>>

InitServ ==
    /\ handles = <<>>
    /\ os = [f \in Fds |-> FreeSlot]
    /\ result = NoCall
    /\ log = <<>>
    /\ arg \in [method : {"getservbyname"}, name : Names, port : {0},
                proto : ProtoArgs, db : Databases]
               \cup [method : {"getservbyport"}, name : {<<>>}, port : ServPorts,
                     proto : ProtoArgs, db : Databases]
    /\ out = NotCalled

NextServ ==
    \/ call_getservbyname
    \/ call_getservbyport

SpecServ == InitServ /\ [][NextServ]_vars

(* ====================================================================== *)
(* Socket.getnameinfo                                                      *)
(* ====================================================================== *)
(* The most candidates the resolver returns for one request.               *)
MaxCands == 3

(* sizeof(struct sockaddr_storage) *)
SizeofSockaddrStorage == 128

(* SA_LEN(sa): the size of the sockaddr's family's structure.              *)
SA_LEN(buf) == SizeofFamily(sa_family(buf, 0))

(* What getnameinfo(3) answers for one address: an error, or a host name   *)
(* and a service name.                                                     *)
NameinfoAnswers ==
    {[err |-> TRUE, host |-> "", serv |-> ""]}
        \cup [err : {FALSE}, host : {"h1", "h2"}, serv : {"s1", "s2"}]

(* What getaddrinfo(3) answers: the candidates, each with the answer       *)
(* getnameinfo(3) has for its address.                                     *)
CandidateLists == UNION {[1..k -> NameinfoAnswers] : k \in 1..MaxCands}

(* The record threaded through the steps of the call: out the outcome so   *)
(* far, lg the resolver calls made.                                        *)
NameinfoFailed(lg, given) ==
    [out |-> [Raised("getnameinfo", "SocketError: getnameinfo", {}) EXCEPT !.given = given],
     lg |-> lg]

MultipleNodename == "SocketError: sockaddr resolved to multiple nodename"

(* for (r = res->ai_next; r; r = r->ai_next): candidate i of cands, after  *)
(* the first candidate answered first.  Every exit releases res.           *)
RECURSIVE nameinfo_candidates(_, _, _, _, _)
nameinfo_candidates(cands, i, first, lg, given) ==
    IF i > Len(cands)
    THEN [out |-> [Returned("getnameinfo", <<first.host, first.serv>>, {})
                      EXCEPT !.given = given],
          lg |-> Append(lg, Ev("freeaddrinfo", NoFd, "ok"))]
    ELSE IF cands[i].err
    THEN NameinfoFailed(lg \o <<Ev("getnameinfo", i, "EAI_FAIL"),
                                Ev("freeaddrinfo", NoFd, "ok")>>, given)
    ELSE IF cands[i].host # first.host \/ cands[i].serv # first.serv
    THEN [out |-> [Raised("getnameinfo", MultipleNodename, {}) EXCEPT !.given = given],
          lg |-> lg \o <<Ev("getnameinfo", i, "ok"), Ev("freeaddrinfo", NoFd, "ok")>>]
    ELSE nameinfo_candidates(cands, i + 1, first,
                             Append(lg, Ev("getnameinfo", i, "ok")), given)

(* Faulty variant: the candidates after the first are not looked at.       *)
call_nameinfo_res_first_only(cands, lg, given) ==
    IF cands[1].err
    THEN NameinfoFailed(lg \o <<Ev("getnameinfo", 1, "EAI_FAIL"),
                                Ev("freeaddrinfo", NoFd, "ok")>>, given)
    ELSE nameinfo_candidates(cands, Len(cands) + 1, cands[1],
                             Append(lg, Ev("getnameinfo", 1, "ok")), given)

(* Faulty variant: res is not released when the first getnameinfo fails.   *)
call_nameinfo_res_leaks(cands, lg, given) ==
    IF cands[1].err
    THEN NameinfoFailed(Append(lg, Ev("getnameinfo", 1, "EAI_FAIL")), given)
    ELSE nameinfo_candidates(cands, 2, cands[1],
                             Append(lg, Ev("getnameinfo", 1, "ok")), given)

(* call_nameinfo: ... with res set (the array form).                       *)
call_nameinfo_res(cands, lg, given) ==
    IF cands[1].err
    THEN NameinfoFailed(lg \o <<Ev("getnameinfo", 1, "EAI_FAIL"),
                                Ev("freeaddrinfo", NoFd, "ok")>>, given)
    ELSE nameinfo_candidates(cands, 2, cands[1],
                             Append(lg, Ev("getnameinfo", 1, "ok")), given)

(* call_nameinfo: ... with res NULL (the string form): sap is the copy ss  *)
(* of the string, written as candidate 0.                                  *)
call_nameinfo_ss(answer) ==
    IF answer.err
    THEN NameinfoFailed(<<Ev("getnameinfo", 0, "EAI_FAIL")>>, <<>>)
    ELSE [out |-> Returned("getnameinfo", <<answer.host, answer.serv>>, {}),
          lg |-> <<Ev("getnameinfo", 0, "ok")>>]

(* Faulty variant: the host is element 2 whatever the array's size.        *)
nameinfo_hints_host_at_2(elems) == <<elems[3], elems[2], "">>

(* The host and port handed to getaddrinfo and whether AI_NUMERICHOST is   *)
(* set, from an array of 3 or more elements ("nil" is nil).                *)
nameinfo_hints(elems) ==
    IF Len(elems) = 3
    THEN <<elems[3], elems[2], "">>
    ELSE IF elems[4] = "nil"
    THEN <<elems[3], elems[2], "">>
    ELSE <<elems[4], elems[2], "AI_NUMERICHOST">>

(* sa is the first argument: a string (its bytes in str), an array (its    *)
(* elements in elems) or something else.  gai is what getaddrinfo(3)       *)
(* returns for the array form, cands its candidates, and for the string    *)
(* form cands[1] is the answer getnameinfo(3) has for the sockaddr.        *)
sock_s_getnameinfo(sa, gai, cands) ==
    IF sa.kind = "string"
    THEN IF SizeofSockaddrStorage < Len(sa.str)
         THEN [out |-> Raised("getnameinfo", "TypeError: sockaddr length too big", {}),
               lg |-> <<>>]
         ELSE IF Len(sa.str) # SA_LEN(sa.str)
         THEN [out |-> Raised("getnameinfo", "TypeError: sockaddr size differs", {}),
               lg |-> <<>>]
         ELSE call_nameinfo_ss(cands[1])
    ELSE IF sa.kind = "array"
    THEN IF Len(sa.elems) < 3
         THEN [out |-> Raised("getnameinfo", "ArgumentError: array size should be 3 or 4", {}),
               lg |-> <<>>]
         ELSE IF gai # "ok"
         THEN [out |-> [Raised("getnameinfo", "SocketError: getaddrinfo", {})
                           EXCEPT !.given = nameinfo_hints(sa.elems)],
               lg |-> <<Ev("getaddrinfo", NoFd, gai)>>]
         ELSE call_nameinfo_res(cands, <<Ev("getaddrinfo", NoFd, "ok")>>,
                                nameinfo_hints(sa.elems))
    ELSE [out |-> Raised("getnameinfo", "TypeError: expecting String or Array", {}),
          lg |-> <<>>]

(* The arrays handed in: the first n of family, port, name, numeric        *)
(* address and one more element.                                           *)
NameinfoArrays ==
    {Take(<<"AF_INET", port, e2, e3, "x">>, n) :
        port \in {"nil", "80"}, e2 \in {"nil", "localhost"},
        e3 \in {"nil", "127.0.0.1"}, n \in 0..5}

(* The strings handed in: packed sockaddrs, whole, cut, and too long.      *)
NameinfoStrings ==
    {Resize(sock_addrinfo(h, 80), n) :
        h \in Hosts,
        n \in {SizeofSockaddrIn - 1, SizeofSockaddrIn, SizeofSockaddrIn6,
               SizeofSockaddrStorage + 1}}

NameinfoArgs ==
    [kind : {"array"}, str : {<<>>}, elems : NameinfoArrays]
        \cup [kind : {"string"}, str : NameinfoStrings, elems : {<<>>}]
        \cup [kind : {"other"}, str : {<<>>}, elems : {<<>>}]

(* Socket.getnameinfo(arg.sa) *)
call_getnameinfo ==
    /\ out = NotCalled
    /\ LET R == sock_s_getnameinfo(arg.sa, arg.gai, arg.cands)
       IN /\ out' = [R.out EXCEPT !.src = "arg"]
          /\ log' = R.lg
    /\ UNCHANGED <<handles, os, result, arg>>

InitNameinfo ==
    /\ handles = <<>>
    /\ os = [f \in Fds |-> FreeSlot]
    /\ result = NoCall
    /\ log = <<>>
    /\ arg \in [sa : NameinfoArgs, gai : {"ok", "EAI_NONAME"}, cands : CandidateLists]
    /\ out = NotCalled

NextNameinfo == call_getnameinfo

SpecNameinfo == InitNameinfo /\ [][NextNameinfo]_vars

(* ====================================================================== *)
(* Socket.getaddrinfo                                                      *)
(* ====================================================================== *)
(* A struct addrinfo of the resolver's list: the address (its numeric      *)
(* text, the name a reverse lookup finds for it, its port), ai_canonname   *)
(* ("nil" for NULL), ai_family, ai_socktype and ai_protocol.               *)
Addrinfos ==
    {[addr |-> a.addr, name |-> "localhost", port |-> 80, ai_canonname |-> c,
      ai_family |-> a.family, ai_socktype |-> t.socktype, ai_protocol |-> t.protocol] :
        a \in {[addr |-> "127.0.0.1", family |-> AF_INET],
               [addr |-> "::1", family |-> AF_INET6]},
        c \in {"nil", "canon.example"},
        t \in {[socktype |-> 1, protocol |-> 6], [socktype |-> 2, protocol |-> 17]}}

(* The lists getaddrinfo(3) may produce; the empty one is res == NULL.     *)
AddrinfoLists == UNION {[1..k -> Addrinfos] : k \in 0..MaxCands}

(* ipaddr(sockaddr, norevlookup): family name, port, host name (the        *)
(* numeric address again when reverse lookup is off), numeric address.     *)
ipaddr(ai, norevlookup) ==
    <<IF ai.ai_family = AF_INET6 THEN "AF_INET6" ELSE "AF_INET",
      ai.port,
      IF norevlookup THEN ai.addr ELSE ai.name,
      ai.addr>>

(* One element of make_addrinfo's result.                                  *)
addrinfo_entry(ai, norevlookup) ==
    LET ary == ipaddr(ai, norevlookup)
        named == IF ai.ai_canonname # "nil"
                 THEN [ary EXCEPT ![3] = ai.ai_canonname]
                 ELSE ary
    IN named \o <<ai.ai_family, ai.ai_socktype, ai.ai_protocol>>

(* Faulty variant: each entry is put in front of the ones before it.       *)
RECURSIVE addrinfo_entries_reversed(_, _)
addrinfo_entries_reversed(res, norevlookup) ==
    IF res = <<>> THEN <<>>
    ELSE addrinfo_entries_reversed(Tail(res), norevlookup)
             \o <<addrinfo_entry(Head(res), norevlookup)>>

(* for (res = res0; res; res = res->ai_next) ... rb_ary_push(base, ary)    *)
RECURSIVE addrinfo_entries(_, _)
addrinfo_entries(res, norevlookup) ==
    IF res = <<>> THEN <<>>
    ELSE <<addrinfo_entry(Head(res), norevlookup)>>
             \o addrinfo_entries(Tail(res), norevlookup)

HostNotFound == "SocketError: host not found"

make_addrinfo(res0, norevlookup) ==
    IF res0 = <<>>
    THEN Raised("getaddrinfo", HostNotFound, {})
    ELSE Returned("getaddrinfo", addrinfo_entries(res0, norevlookup), {})

(* sock_getaddrinfo raises when getaddrinfo(3) reports an error gai;       *)
(* otherwise res goes to make_addrinfo and is released after it returned.  *)
sock_s_getaddrinfo(gai, res, norevlookup) ==
    IF gai # "ok"
    THEN [out |-> Raised("getaddrinfo", "SocketError: getaddrinfo", {}),
          lg |-> <<Ev("getaddrinfo", NoFd, gai)>>]
    ELSE LET ret == make_addrinfo(res, norevlookup)
         IN [out |-> ret,
             lg |-> IF ret.outcome = "return"
                    THEN <<Ev("getaddrinfo", NoFd, "ok"), Ev("freeaddrinfo", NoFd, "ok")>>
                    ELSE <<Ev("getaddrinfo", NoFd, "ok")>>]

(* Socket.getaddrinfo(nodename, servname, ...) *)
call_getaddrinfo ==
    /\ out = NotCalled
    /\ LET R == sock_s_getaddrinfo(arg.gai, arg.res, arg.do_not_reverse_lookup)
       IN /\ out' = [R.out EXCEPT !.src = "arg"]
          /\ log' = R.lg
    /\ UNCHANGED <<handles, os, result, arg>>

InitAddrinfo ==
    /\ handles = <<>>
    /\ os = [f \in Fds |-> FreeSlot]
    /\ result = NoCall
    /\ log = <<>>
    /\ arg \in [gai : {"ok", "EAI_NONAME"}, res : AddrinfoLists,
                do_not_reverse_lookup : BOOLEAN]
    /\ out = NotCalled

NextAddrinfo == call_getaddrinfo

SpecAddrinfo == InitAddrinfo /\ [][NextAddrinfo]_vars

(* ====================================================================== *)
(* Properties of the address codec                                         *)
(* ====================================================================== *)
TooLongPath == "ArgumentError: too long unix socket path"

NotNulTerminated == "ArgumentError: sockaddr_un.sun_path not NUL terminated"

TooShort == "ArgumentError: too short sockaddr"

(* The bytes of buf from offset off to its end.                            *)
From(buf, off) == SubSeq(buf, off + 1, Len(buf))

(* buf is a complete sockaddr_un of path: family, path, zero fill.         *)
IsSockaddrUnOf(buf, path) ==
    /\ Len(buf) = SizeofSockaddrUn
    /\ buf[FamilyOffset + 1] + 256 * buf[FamilyOffset + 2] = AF_UNIX
    /\ \A i \in 1..Len(path) : buf[SunPathOffset + i] = path[i]
    /\ \A i \in (SunPathOffset + Len(path) + 1)..Len(buf) : buf[i] = 0

PackedUn == out.fn = "pack_sockaddr_un"

UnpackedUn == out.fn = "unpack_sockaddr_un"

UnpackedIn == out.fn = "unpack_sockaddr_in"

(* C11 as stated: pack_sockaddr_un raises the too-long error exactly when  *)
(* the path's length is at least the size of sun_path, and returns a       *)
(* complete sockaddr_un for every shorter path.                            *)
C11_TooLongExactlyWhenLong ==
    PackedUn =>
        /\ (out.outcome = "raise" /\ out.err = TooLongPath)
               <=> Len(out.given) >= SunPathSize
        /\ Len(out.given) < SunPathSize =>
               /\ out.outcome = "return"
               /\ IsSockaddrUnOf(out.val, out.given)

(* C11 amended: for a path without an embedded NUL byte pack_sockaddr_un   *)
(* raises the too-long error exactly when the length is at least the size  *)
(* of sun_path and returns a complete sockaddr_un (family AF_UNIX, the     *)
(* path, zero fill) for every shorter one; a path with an embedded NUL is  *)
(* rejected with another ArgumentError whatever its length.                *)
C11_TooLongExactlyWhenLongWithoutNul ==
    PackedUn =>
        IF HasNul(out.given)
        THEN out.outcome = "raise" /\ out.err # TooLongPath
        ELSE /\ (out.outcome = "raise" /\ out.err = TooLongPath)
                    <=> Len(out.given) >= SunPathSize
             /\ Len(out.given) < SunPathSize =>
                    /\ out.outcome = "return"
                    /\ IsSockaddrUnOf(out.val, out.given)

C11_Witness ==
    /\ PackedUn
    /\ ~HasNul(out.given)
    /\ Len(out.given) = SunPathSize
    /\ out.outcome = "raise"
    /\ out.err = TooLongPath

(* C12: for a path without embedded NUL of length at most the size of      *)
(* sun_path minus one, pack_sockaddr_un returns and unpack_sockaddr_un of   *)
(* what it returned is the path.                                           *)
C12_UnixRoundTrip ==
    /\ (PackedUn /\ ~HasNul(arg) /\ Len(arg) <= SunPathSize - 1)
           => out.outcome = "return"
    /\ (UnpackedUn /\ out.src = "packed")
           => (out.outcome = "return" /\ out.val = arg)

C12_Witness ==
    /\ UnpackedUn
    /\ out.src = "packed"
    /\ Len(arg) = SunPathSize - 1
    /\ out.outcome = "return"
    /\ out.val = arg

(* An AF_UNIX buffer whose path fills sun_path to the field boundary with  *)
(* no NUL in it.                                                           *)
FullUnterminated(buf) ==
    /\ Len(buf) = SunPathOffset + SunPathSize
    /\ sa_family(buf, 0) = AF_UNIX
    /\ ~HasNul(From(buf, SunPathOffset))

(* C13 as stated: unpack_sockaddr_un of a buffer whose path fills the      *)
(* field with no terminator returns the full field.                        *)
C13_FullFieldDecodes ==
    (UnpackedUn /\ FullUnterminated(out.given)) =>
        (out.outcome = "return" /\ out.val = From(out.given, SunPathOffset))

(* C13 amended: unpack_sockaddr_un of a buffer whose path fills the field  *)
(* with no terminator raises the not-NUL-terminated error and returns no   *)
(* path.                                                                   *)
C13_FullFieldRejected ==
    (UnpackedUn /\ FullUnterminated(out.given)) =>
        (out.outcome = "raise" /\ out.err = NotNulTerminated)

C13_Witness ==
    /\ UnpackedUn
    /\ FullUnterminated(out.given)
    /\ out.outcome = "raise"

(* path is what a reader of buf finds from off up to the first NUL, the    *)
(* string's own terminator at the end of buf included.                     *)
IsPathUpToNul(path, buf, off) ==
    /\ ~HasNul(path)
    /\ Len(path) <= Len(buf) - off
    /\ \A i \in 1..Len(path) : path[i] = buf[off + i]
    /\ off + Len(path) < Len(buf) => buf[off + Len(path) + 1] = 0

(* C14: for an AF_UNIX buffer no longer than sockaddr_un,                  *)
(* unpack_sockaddr_un raises the not-NUL-terminated error exactly when the *)
(* buffer has the size of sockaddr_un and no NUL from sun_path to its end; *)
(* otherwise it returns the bytes from sun_path up to the first NUL.       *)
C14_NotNulTerminatedOnlyAtBoundary ==
    (/\ UnpackedUn
     /\ Len(out.given) >= FamilyEnd
     /\ sa_family(out.given, 0) = AF_UNIX
     /\ Len(out.given) <= SizeofSockaddrUn) =>
        IF /\ Len(out.given) = SizeofSockaddrUn
           /\ ~HasNul(From(out.given, SunPathOffset))
        THEN out.outcome = "raise" /\ out.err = NotNulTerminated
        ELSE /\ out.outcome = "return"
             /\ IF Len(out.given) <= SunPathOffset
                THEN out.val = <<>>
                ELSE IsPathUpToNul(out.val, out.given, SunPathOffset)

(* A buffer shorter than sockaddr_un whose path runs unterminated to the   *)
(* end of the buffer is decoded, not rejected.                             *)
C14_Witness ==
    /\ UnpackedUn
    /\ out.src = "arg"
    /\ sa_family(out.given, 0) = AF_UNIX
    /\ Len(out.given) = SizeofSockaddrUn - 1
    /\ ~HasNul(From(out.given, SunPathOffset))
    /\ out.outcome = "return"
    /\ out.val = From(out.given, SunPathOffset)

(* C15: for a buffer shorter than the end of sa_family, unpack_sockaddr_in *)
(* and unpack_sockaddr_un raise the too-short error and read no field.     *)
C15_ShortBufferRejectedUnread ==
    ((UnpackedUn \/ UnpackedIn) /\ Len(out.given) < FamilyOffset + FamilySize) =>
        (out.outcome = "raise" /\ out.err = TooShort /\ out.reads = {})

C15_Witness ==
    /\ UnpackedUn
    /\ Len(out.given) = FamilyOffset + FamilySize - 1
    /\ out.outcome = "raise"
    /\ out.err = TooShort

(* The decoders of the file.                                               *)
Decoded == out.fn \in {"unpack_sockaddr_in", "unpack_sockaddr_un", "sock_sockaddr"}

UnknownFamily(buf) ==
    /\ Len(buf) >= FamilyEnd
    /\ sa_family(buf, 0) \notin {AF_INET, AF_INET6, AF_UNIX}

(* C16 as stated: decoding a buffer whose family is not AF_INET, AF_INET6  *)
(* or AF_UNIX returns the raw bytes with the family tag and does not       *)
(* raise.                                                                  *)
C16_UnknownFamilyOpaque ==
    (Decoded /\ UnknownFamily(out.given)) =>
        /\ out.outcome = "return"
        /\ out.val = <<out.given, sa_family(out.given, 0)>>

(* C16 amended: decoding a buffer whose family is not AF_INET, AF_INET6 or *)
(* AF_UNIX raises: unpack_sockaddr_in and unpack_sockaddr_un an            *)
(* ArgumentError naming the families they take, sock_sockaddr a            *)
(* SocketError; nothing is returned and no field but the family is read.   *)
C16_UnknownFamilyRaises ==
    (Decoded /\ UnknownFamily(out.given)) =>
        /\ out.outcome = "raise"
        /\ out.reads = {"family"}
        /\ out.fn = "unpack_sockaddr_in"
               => out.err = "ArgumentError: not an AF_INET/AF_INET6 sockaddr"
        /\ out.fn = "unpack_sockaddr_un"
               => out.err = "ArgumentError: not an AF_UNIX sockaddr"
        /\ out.fn = "sock_sockaddr"
               => out.err = "SocketError: unknown socket family"

C16_Witness ==
    /\ UnpackedIn
    /\ Len(out.given) = SizeofSockaddrIn
    /\ sa_family(out.given, 0) = AF_INET6 + 1
    /\ out.outcome = "raise"

(* C17 as stated: unpack_sockaddr_in raises when the length of an AF_INET  *)
(* or AF_INET6 buffer differs from the size of the family's structure, and *)
(* reads neither port nor address from a buffer shorter than it.           *)
C17_FullLengthValidated ==
    (/\ UnpackedIn
     /\ Len(out.given) >= FamilyEnd
     /\ sa_family(out.given, 0) \in {AF_INET, AF_INET6}
     /\ Len(out.given) # SizeofFamily(sa_family(out.given, 0))) =>
        /\ out.outcome = "raise"
        /\ out.reads \cap {"port", "addr", "past_end"} = {}

GotByName == out.fn = "getservbyname"

GotByPort == out.fn = "getservbyport"

(* The entry of the database for the name, or the port, and the protocol   *)
(* of the call ("tcp" when none is given).                                 *)
EntryFor(name) ==
    {e \in arg.db : e.s_name = name
                    /\ e.s_proto = (IF arg.proto = "nil" THEN "tcp" ELSE arg.proto)}

EntryForPort(port) ==
    {e \in arg.db : e.port = port
                    /\ e.s_proto = (IF arg.proto = "nil" THEN "tcp" ELSE arg.proto)}

AllDigits(t, base) == \A i \in 1..Len(t) : IsDigit(t[i], base)

(* The number a digit string writes in a base, last digit first.           *)
RECURSIVE NumberOf(_, _)
NumberOf(t, base) ==
    IF t = <<>> THEN 0
    ELSE base * NumberOf(SubSeq(t, 1, Len(t) - 1), base) + Digit[t[Len(t)]]

(* A literal decimal number: one or more decimal digits, nothing else.     *)
IsDecimal(t) == Len(t) > 0 /\ AllDigits(t, 10)

(* C19 as stated: getservbyname returns the port of the database entry     *)
(* when there is one; without one it returns the name's value when the     *)
(* name is a literal decimal number and raises for every other name.       *)
C19_DecimalFallback ==
    GotByName =>
        IF EntryFor(arg.name) # {}
        THEN out.outcome = "return" /\ \E e \in EntryFor(arg.name) : out.val = e.port
        ELSE IF IsDecimal(arg.name)
        THEN out.outcome = "return" /\ out.val = NumberOf(arg.name, 10)
        ELSE out.outcome = "raise" /\ out.err = NoSuchService

(* The literals of C with their values: decimal without a leading zero,    *)
(* octal after a leading 0, hexadecimal after 0x.                          *)
IsCLiteral(t) ==
    \/ Len(t) > 0 /\ t[1] # "0" /\ AllDigits(t, 10)
    \/ Len(t) > 0 /\ t[1] = "0" /\ AllDigits(t, 8)
    \/ Len(t) > 2 /\ t[1] = "0" /\ t[2] = "x" /\ AllDigits(SubSeq(t, 3, Len(t)), 16)

CLiteralValue(t) ==
    IF t[1] # "0" THEN NumberOf(t, 10)
    ELSE IF Len(t) > 2 /\ t[2] = "x" THEN NumberOf(SubSeq(t, 3, Len(t)), 16)
    ELSE NumberOf(t, 8)

(* name is k blanks, then a minus sign if neg, then a C literal.           *)
IsSignedLiteral(name, k, neg) ==
    /\ k + (IF neg THEN 1 ELSE 0) < Len(name)
    /\ \A i \in 1..k : name[i] = " "
    /\ neg => name[k + 1] = "-"
    /\ IsCLiteral(SubSeq(name, k + (IF neg THEN 2 ELSE 1), Len(name)))

(* C19 amended: getservbyname returns the port of the database entry when  *)
(* there is one; without one it returns 0 for the empty name, the value of *)
(* the name when the name is a C integer literal (decimal, octal after a   *)
(* leading 0, hexadecimal after 0x) after optional blanks and an optional  *)
(* minus sign, negated after the sign, and raises for every other name.    *)
C19_StrtoulFallback ==
    GotByName =>
        IF EntryFor(arg.name) # {}
        THEN out.outcome = "return" /\ \E e \in EntryFor(arg.name) : out.val = e.port
        ELSE IF arg.name = <<>>
        THEN out.outcome = "return" /\ out.val = 0
        ELSE IF \E k \in 0..Len(arg.name), neg \in BOOLEAN :
                    IsSignedLiteral(arg.name, k, neg)
        THEN /\ out.outcome = "return"
             /\ \E k \in 0..Len(arg.name), neg \in BOOLEAN :
                   /\ IsSignedLiteral(arg.name, k, neg)
                   /\ LET v == CLiteralValue(SubSeq(arg.name, k + (IF neg THEN 2 ELSE 1),
                                                    Len(arg.name)))
                      IN out.val = (IF neg THEN 0 - v ELSE v)
        ELSE out.outcome = "raise" /\ out.err = NoSuchService

(* A name with a leading zero and no entry is read as octal.               *)
C19_Witness ==
    /\ GotByName
    /\ EntryFor(arg.name) = {}
    /\ arg.name = <<"0", "1", "0">>
    /\ out.outcome = "return"
    /\ out.val = 8

(* C20: for a port in 0..65535 without an entry for the protocol           *)
(* getservbyport raises the no-such-service error; it never returns the    *)
(* port as text.                                                           *)
C20_NoLiteralFallback ==
    (GotByPort /\ arg.port \in 0..65535 /\ EntryForPort(arg.port) = {}) =>
        /\ out.outcome = "raise"
        /\ out.err = NoSuchPort
        /\ out.val # ToS(arg.port)

C20_Witness ==
    /\ GotByPort
    /\ arg.port = 80
    /\ arg.db # {}
    /\ EntryForPort(arg.port) = {}
    /\ out.outcome = "raise"
    /\ out.err = NoSuchPort

(* ====================================================================== *)
(* Properties of the cleanup of Socket.socketpair                          *)
(* ====================================================================== *)
(* C25: when Socket.socketpair runs a block, the block runs first, then    *)
(* the second end is closed, then the first; an error of either close is   *)
(* rescued, so both ends are closed afterwards whatever the close of the   *)
(* second end did, and the caller gets the block's return or exception.    *)
C25_SecondEndClosedFirst ==
    (result.op = "socketpair" /\ result.val # <<>> /\ result.kind # "pair") =>
        LET closed == Events(log, "io_close")
            yielded == Events(log, "yield")
        IN /\ Len(yielded) = 1
           /\ Len(closed) = 2
           /\ Len(log) >= 2
           /\ log[Len(log) - 1] = closed[1]
           /\ log[Len(log)] = closed[2]
           /\ closed[1].fd = result.val[2]
           /\ closed[2].fd = result.val[1]
           /\ ~IsOpen(result.val[1])
           /\ ~IsOpen(result.val[2])
           /\ result.outcome = (IF yielded[1].res = "return" THEN "return" ELSE "raise")
           /\ result.outcome = "raise" => result.err = "BlockError"

(* The block closed the second end itself: closing it again fails, and the *)
(* first end is closed all the same.                                       *)
C25_Witness ==
    /\ result.op = "socketpair"
    /\ result.kind = "block"
    /\ result.outcome = "return"
    /\ Events(log, "io_close")[1] = Ev("io_close", result.val[2], "IOError")
    /\ Events(log, "io_close")[2] = Ev("io_close", result.val[1], "ok")
    /\ ~IsOpen(result.val[1])

(* C26: getservbyport raises a RangeError for every port outside          *)
(* 0..65535, "too big" above the range and "too small" below it, without   *)
(* converting the port or looking into the services database; only ports   *)
(* of the range are converted and looked up.                               *)
C26_PortRangeChecked ==
    GotByPort =>
        IF arg.port \in 0..65535
        THEN /\ out.reads = {"htons", "services"}
             /\ out.err \notin {RangeErrorOf(1), RangeErrorOf(0)}
        ELSE /\ out.outcome = "raise"
             /\ out.reads = {}
             /\ arg.port > 65535
                    => out.err = "RangeError: integer too big to convert into `int16_t'"
             /\ arg.port < 0
                    => out.err = "RangeError: integer too small to convert into `int16_t'"

(* 65616 is 80 modulo 65536: truncated it would find the entry of port 80. *)
C26_Witness ==
    /\ GotByPort
    /\ arg.port = 65616
    /\ \E e \in arg.db : e.port = 80 /\ e.s_proto = "tcp"
    /\ arg.proto = "tcp"
    /\ out.outcome = "raise"
    /\ out.reads = {}

(* ====================================================================== *)
(* Properties of Socket.getnameinfo                                        *)
(* ====================================================================== *)
GotNameinfo == out.fn = "getnameinfo"

(* The call got candidates from getaddrinfo.                               *)
GotCandidates ==
    /\ GotNameinfo
    /\ arg.sa.kind = "array"
    /\ Len(arg.sa.elems) >= 3
    /\ arg.gai = "ok"

Resolves(c) == ~c.err

SameName(c, d) == c.host = d.host /\ c.serv = d.serv

(* Candidate i answers, with another name than the first candidate.        *)
Differs(i) ==
    /\ Resolves(arg.cands[1])
    /\ Resolves(arg.cands[i])
    /\ ~SameName(arg.cands[i], arg.cands[1])

(* C21 as stated: with several candidates a pair is returned only if every *)
(* candidate answers with the host and service of the first, and if any    *)
(* candidate differs the multiple-nodename error is raised.                *)
C21_AnyDifferenceIsAmbiguous ==
    (GotCandidates /\ Len(arg.cands) > 1) =>
        /\ out.outcome = "return" =>
               \A i \in 1..Len(arg.cands) :
                   Resolves(arg.cands[i]) /\ SameName(arg.cands[i], arg.cands[1])
        /\ (\E i \in 2..Len(arg.cands) : Differs(i)) =>
               (out.outcome = "raise" /\ out.err = MultipleNodename)

(* C21 amended: a pair is returned only if every candidate answers with    *)
(* the host and service of the first; if a candidate differs and every     *)
(* candidate before it answered, the multiple-nodename error is raised; if *)
(* a candidate before the first differing one fails, the getnameinfo error *)
(* is raised instead.  Nothing is returned in either case.                 *)
C21_FirstDifferenceIsAmbiguous ==
    (GotCandidates /\ Len(arg.cands) > 1) =>
        /\ out.outcome = "return" =>
               /\ \A i \in 1..Len(arg.cands) :
                      Resolves(arg.cands[i]) /\ SameName(arg.cands[i], arg.cands[1])
               /\ out.val = <<arg.cands[1].host, arg.cands[1].serv>>
        /\ \A i \in 2..Len(arg.cands) : Differs(i) =>
               /\ out.outcome = "raise"
               /\ out.val = <<>>
               /\ IF \A j \in 1..(i - 1) : Resolves(arg.cands[j])
                  THEN out.err = MultipleNodename
                  ELSE out.err \in {MultipleNodename, "SocketError: getnameinfo"}
               /\ (\A j \in 1..(i - 1) :
                       Resolves(arg.cands[j]) /\ SameName(arg.cands[j], arg.cands[1]))
                      => Last(Events(log, "getnameinfo")) = Ev("getnameinfo", i, "ok")

(* The last of three candidates differs in the service only.               *)
C21_Witness ==
    /\ GotCandidates
    /\ Len(arg.cands) = 3
    /\ SameName(arg.cands[2], arg.cands[1])
    /\ Differs(3)
    /\ arg.cands[3].host = arg.cands[1].host
    /\ out.outcome = "raise"
    /\ out.err = MultipleNodename

(* The calls of the resolver a call made.                                  *)
ResolverCalls == SelectSeq(log, LAMBDA e : e.ev \in {"getaddrinfo", "getnameinfo"})

Releases == {k \in 1..Len(log) : log[k].ev = "freeaddrinfo"}

(* C24: when getaddrinfo gave a result, freeaddrinfo is called exactly     *)
(* once, as the last thing the call does with the resolver, whether it     *)
(* returns, a getnameinfo call fails or the names differ; when there is no *)
(* result (string form, failed getaddrinfo, rejected argument) it is not   *)
(* called.                                                                 *)
C24_ResultReleasedOnce ==
    GotNameinfo =>
        IF GotCandidates
        THEN /\ Cardinality(Releases) = 1
             /\ Releases = {Len(log)}
             /\ \A k \in 1..Len(log) : log[k].fd >= 1 => k < Len(log)
        ELSE Releases = {}

(* The first candidate's getnameinfo fails.                                *)
C24_Witness ==
    /\ GotCandidates
    /\ arg.cands[1].err
    /\ out.err = "SocketError: getnameinfo"
    /\ log = <<Ev("getaddrinfo", NoFd, "ok"), Ev("getnameinfo", 1, "EAI_FAIL"),
               Ev("freeaddrinfo", NoFd, "ok")>>

(* ====================================================================== *)
(* Properties of Socket.getaddrinfo                                        *)
(* ====================================================================== *)
GotAddrinfo == out.fn = "getaddrinfo" /\ arg.gai = "ok"

(* C23: getaddrinfo returns one entry for each addrinfo of the resolver's  *)
(* list, in the list's order: family name, port, host, numeric address,    *)
(* then ai_family, ai_socktype and ai_protocol, the host being             *)
(* ai_canonname when there is one; for an empty list it raises "host not   *)
(* found".                                                                 *)
C23_EntriesInResolverOrder ==
    GotAddrinfo =>
        IF arg.res = <<>>
        THEN out.outcome = "raise" /\ out.err = HostNotFound
        ELSE /\ out.outcome = "return"
             /\ Len(out.val) = Len(arg.res)
             /\ \A i \in 1..Len(arg.res) :
                   LET ai == arg.res[i]
                       e == out.val[i]
                   IN /\ Len(e) = 7
                      /\ e[1] = (IF ai.ai_family = AF_INET THEN "AF_INET" ELSE "AF_INET6")
                      /\ e[2] = ai.port
                      /\ e[3] = (IF ai.ai_canonname # "nil" THEN ai.ai_canonname
                                 ELSE IF arg.do_not_reverse_lookup THEN ai.addr
                                 ELSE ai.name)
                      /\ e[4] = ai.addr
                      /\ e[5] = ai.ai_family
                      /\ e[6] = ai.ai_socktype
                      /\ e[7] = ai.ai_protocol

(* Two candidates of different families; only the first has a canonical    *)
(* name.                                                                   *)
C23_Witness ==
    /\ GotAddrinfo
    /\ Len(arg.res) >= 2
    /\ arg.res[1].ai_family = AF_INET6
    /\ arg.res[2].ai_family = AF_INET
    /\ arg.res[1].ai_canonname # "nil"
    /\ arg.res[2].ai_canonname = "nil"
    /\ out.outcome = "return"
    /\ out.val[1][3] = arg.res[1].ai_canonname
    /\ out.val[2][4] = "127.0.0.1"

====
